---- MODULE Spec2Model ----
(***************************************************************************)
(* The command correlation bridge of aieda_python/bridge_server.py.        *)
(*                                                                         *)
(* The bridge runs on one asyncio event loop.  Every coroutine runs        *)
(* without interruption between two suspension points (await), so each     *)
(* action below is the code between two awaits of one handler:             *)
(*                                                                         *)
(*   ws_handler       prepare .. close() | close() .. receive | finally    *)
(*   handle_command   check | request.json() .. send_str | send_str ..     *)
(*                    wait_for | wait_for .. return                        *)
(*                                                                         *)
(* Platform behaviour the source relies on (aiohttp >= 3.9, asyncio of     *)
(* CPython >= 3.12):                                                       *)
(*   - ws.close() called from another task marks the socket closed and     *)
(*     feeds a CLOSING message to the task blocked in receive(); close()   *)
(*     returns after that task has left its receive loop;                  *)
(*   - send_str on a closed socket raises at once;                         *)
(*   - wait_for(fut, t) cancels fut when the timer fires and then raises   *)
(*     TimeoutError in the waiting task at its next step;                  *)
(*   - ready callbacks run before the loop sleeps, so the clock does not   *)
(*     advance while a task is runnable.                                   *)
(***************************************************************************)
EXTENDS Integers, Sequences, FiniteSets, TLC

\* ---------------------------------------------------------------- bounds
NumCallers  == 2     \* POST /command requests in one run
NumConns    == 2     \* WebSocket connections in one run
NumIds      == 2     \* distinct command ids the callers choose from
TickStep    == 15    \* granularity of the model clock, in seconds
ClientTick  == 5     \* granularity of the client's clock, in seconds
NumProcs    == 2     \* issuer processes (CLI runs, consoles)
MaxIssued   == 3     \* commands one issuer process creates
MaxNow      == 3     \* milliseconds the issuers' clock runs
Den         == 2     \* floats are multiples of 1/Den
MaxCoord    == 1     \* largest coordinate of a line
MaxPoints   == 3     \* points of the longest line
MaxOps      == 2     \* operations of the longest plan
MaxItems    == 2     \* components, and wires, of the largest snapshot

\* ------------------------------------------------------ program constants
COMMAND_TIMEOUT_S == 30      \* bridge_server.py line 57
timeout_seconds   == 10      \* client.py line 28

Callers == 1..NumCallers
Conns   == 1..NumConns
Ids     == 1..NumIds

None        == 0      \* Python None (empty peer slot, no connection)
JunkId      == NumIds + 1   \* an id no caller ever used
NoId        == -1     \* missing or falsy id
BadId       == -2     \* unhashable id (a JSON list or object)
BodyInvalid == -3     \* request body that is not JSON

Bodies   == Ids \cup {NoId, BodyInvalid}
Payloads == {{}, {"caps"}}

VARIABLES
  plugin_ws,     \* _plugin_ws: the attached connection, or None
  plugin_meta,   \* _plugin_meta: keys reported by bridge_connected
  pending,       \* _pending: command id -> caller owning the future
  fut,           \* the future of each handle_command call
  pcc,           \* position of each handle_command call
  cid,           \* cmd_id of each call (line 183), NoId before it is read
  target,        \* the value of _plugin_ws a call handed to send_str
  elapsed,       \* seconds a call has spent in wait_for
  resp,          \* the HTTP response of each call
  pcw,           \* position of each ws_handler call
  closed,        \* ws.closed of each connection
  closeTarget,   \* the connection a ws_handler is closing (line 108)
  wire,          \* commands transmitted to each peer, in order
  dropped        \* id of the caller-issued result the last step discarded, or None

\* BridgeClient.send_command (client.py) against one bridge
VARIABLES
  c_pc,          \* position of the send_command call
  c_action,      \* action of the BridgeCommand handed to send_command
  c_reply,       \* what the bridge will answer to the POST, and when
  c_clock,       \* seconds since the request was sent
  c_ret,         \* the dict send_command returned
  c_exc,         \* the exception send_command raised
  c_registered,  \* actions the bridge registered a pending request for
  c_wire         \* actions the bridge transmitted to the peer

clientVars == <<c_pc, c_action, c_reply, c_clock, c_ret, c_exc,
                c_registered, c_wire>>

\* issuer processes creating command ids (protocol.py)
VARIABLES
  i_now,         \* int(time.time() * 1000), the same clock for every process
  i_counter,     \* _counter of each issuer process
  i_issued       \* the commands created so far: process, rank and id

issuerVars == <<i_now, i_counter, i_issued>>

\* _normalize_number and _canonical_line applied to two lines (cli.py)
VARIABLES
  k_pc,          \* "off", or how far the two lines have been processed
  k_a, k_b,      \* the two lines, as given
  k_normA,       \* _normalize_number of each coordinate of line a
  k_normB,       \*   and of line b
  k_keyA,        \* _canonical_line of line a
  k_keyB         \*   and of line b

canonVars == <<k_pc, k_a, k_b, k_normA, k_normB, k_keyA, k_keyB>>

\* _verify_plan_against_schema applied to a plan and a snapshot (cli.py)
VARIABLES
  v_payload,     \* the compiled plan
  v_read,        \* the result of read_schema
  v_report       \* the verification report, NoReport before there is one

verifyVars == <<v_payload, v_read, v_report>>

\* one run of cmd_apply_requirements (cli.py)
VARIABLES
  a_pc,          \* how far the flow has come
  a_args,        \* the flags of the command line
  a_plan,        \* the compiled plan
  a_sent,        \* the commands sent to the bridge, in order
  a_got,         \* the replies to the precheck, the dry run and the apply
  a_out,         \* what the command printed
  a_audit,       \* the reports written to the audit directory
  a_file,        \* the plan has been written to --output-payload-file
  a_exit         \* the exit code, "raised" when an exception ended the run

applyVars == <<a_pc, a_args, a_plan, a_sent, a_got, a_out, a_audit, a_file,
               a_exit>>

\* the liveness task _ping_loop of the bridge (bridge_server.py)
VARIABLES
  ping_pc,       \* "sleep" while the task runs, "ended" when it has ended
  ping           \* what the last wake-up that sent a ping did

pingVars == <<ping_pc, ping>>

\* the state of everything but the handlers of the bridge
extVars == <<clientVars, issuerVars, canonVars, verifyVars, applyVars, pingVars>>

bridgeState == <<plugin_ws, plugin_meta, pending, fut, pcc, cid, target,
                 elapsed, resp, pcw, closed, closeTarget, wire, dropped>>

vars == <<plugin_ws, plugin_meta, pending, fut, pcc, cid, target, elapsed,
          resp, pcw, closed, closeTarget, wire, dropped, extVars>>

\* what the steps of one component leave alone
Frame(own) ==
  /\ IF own = "client" THEN TRUE ELSE UNCHANGED clientVars
  /\ IF own = "issuer" THEN TRUE ELSE UNCHANGED issuerVars
  /\ IF own = "canon" THEN TRUE ELSE UNCHANGED canonVars
  /\ IF own = "verify" THEN TRUE ELSE UNCHANGED verifyVars
  /\ IF own = "apply" THEN TRUE ELSE UNCHANGED applyVars
  /\ IF own = "ping" THEN TRUE ELSE UNCHANGED pingVars
  /\ UNCHANGED bridgeState

callerVars == <<fut, pcc, cid, target, elapsed, resp>>
connVars   == <<pcw, closed, closeTarget>>
bridgeVars == <<plugin_ws, plugin_meta, pending>>

\* ------------------------------------------------------------- helpers
NoData == [id |-> 0]

NoFuture == [state |-> "none", data |-> NoData, sets |-> 0]
NewFuture == [state |-> "pending", data |-> NoData, sets |-> 0]

Done(f) == f.state \in {"result", "exception", "cancelled"}

\* fut.set_result(data)
SetResult(f, data) == [state |-> "result", data |-> data, sets |-> f.sets + 1]
\* fut.set_exception(ConnectionError("Plugin disconnected"))
SetException(f) == [state |-> "exception", data |-> f.data, sets |-> f.sets + 1]
\* fut.cancel(): a no-op on a future that is done
Cancel(f) == IF Done(f) THEN f
             ELSE [state |-> "cancelled", data |-> f.data, sets |-> f.sets + 1]

\* _json_response(data, status)
Response(status, kind, data) == [status |-> status, kind |-> kind, data |-> data]
NoResp           == Response(0, "none", NoData)
RespNotConnected == Response(503, "not_connected", NoData)
RespInvalidJson  == Response(400, "invalid_json", NoData)
RespMissingId    == Response(400, "missing_id", NoData)
RespSendFailed   == Response(502, "send_failed", NoData)
RespTimeout      == Response(504, "timeout", NoData)
RespDisconnected == Response(502, "disconnected", NoData)
RespResult(data) == Response(200, "result", data)

\* dict.pop(key, None)
Pop(d, key) == [i \in DOMAIN d \ {key} |-> d[i]]
\* d[key] = value
Put(d, key, value) == [i \in DOMAIN d \cup {key} |-> IF i = key THEN value ELSE d[i]]
EmptyDict == [i \in {} |-> 0]

Range(s) == {s[j] : j \in DOMAIN s}

\* as NotConnected, but without the test of ws.closed
NotConnectedIgnoringClosed(ws, cl) == ws = None

\* handle_command line 171: _plugin_ws is None or _plugin_ws.closed
NotConnected(ws, cl) == ws = None \/ cl[ws]

BridgeInit ==
  /\ plugin_ws = None
  /\ plugin_meta = {}
  /\ pending = EmptyDict
  /\ fut = [k \in Callers |-> NoFuture]
  /\ pcc = [k \in Callers |-> "idle"]
  /\ cid = [k \in Callers |-> NoId]
  /\ target = [k \in Callers |-> None]
  /\ elapsed = [k \in Callers |-> 0]
  /\ resp = [k \in Callers |-> NoResp]
  /\ pcw = [c \in Conns |-> "new"]
  /\ closed = [c \in Conns |-> FALSE]
  /\ closeTarget = [c \in Conns |-> None]
  /\ wire = [c \in Conns |-> <<>>]
  /\ dropped = None

\* ------------------------------------------------- pieces of the handlers
\* ws_handler line 106: an open connection is attached and must be closed
ReplaceNeeded(ws, cl) == ws # None /\ ~cl[ws]

\* as FailedFutures, but the futures are dropped without being failed
FailedFuturesForgotten(p, f) == f

\* as FailedFutures, but without the fut.done() test of line 125
FailedFuturesUnguarded(p, f) ==
  [k \in Callers |->
     IF \E i \in DOMAIN p : p[i] = k THEN SetException(f[k]) ELSE f[k]]

\* ws_handler lines 124-126: fail every future of the map that is not done
FailedFutures(p, f) ==
  [k \in Callers |->
     IF (\E i \in DOMAIN p : p[i] = k) /\ ~Done(f[k])
     THEN SetException(f[k]) ELSE f[k]]

\* as PendingAfterCleanup, but the map is not cleared
PendingKeptAfterCleanup(p) == p

\* ws_handler line 127: _pending.clear()
PendingAfterCleanup(p) == EmptyDict

\* _handle_plugin_message line 155: the result names a pending command
Matches(p, id) == id # NoId /\ id \in DOMAIN p

\* _handle_plugin_message line 156: fut = _pending.pop(cmd_id)
PendingAfterResult(p, id) == IF Matches(p, id) THEN Pop(p, id) ELSE p

\* as ResolvedFutures, but the reply resolves the oldest entry of the map
\* (correlation by position instead of by id)
ResolvedFuturesByPosition(p, f, id, data) ==
  IF Matches(p, id)
  THEN LET first == CHOOSE i \in DOMAIN p : \A j \in DOMAIN p : i <= j
       IN  IF Done(f[p[first]]) THEN f
           ELSE [f EXCEPT ![p[first]] = SetResult(f[p[first]], data)]
  ELSE f

\* _handle_plugin_message lines 157-158: if not fut.done(): fut.set_result
ResolvedFutures(p, f, id, data) ==
  IF Matches(p, id) /\ ~Done(f[p[id]])
  THEN [f EXCEPT ![p[id]] = SetResult(f[p[id]], data)]
  ELSE f

\* as Registered, but the future is not put in the map
NotRegistered(p, id, k) == p

\* handle_command line 192: _pending[cmd_id] = fut
Registered(p, id, k) == Put(p, id, k)

\* handle_command line 196: send_str raises before it suspends, because
\* _plugin_ws is None (AttributeError) or the socket is closed
SendRaises(ws, cl) == ws = None \/ cl[ws]

\* as PendingAfterSendError, but the entry is left in the map
PendingKeptAfterSendError(p, id) == p

\* handle_command line 198: _pending.pop(cmd_id, None)
PendingAfterSendError(p, id) == Pop(p, id)

\* as PendingAfterTimeout, but the entry is left in the map
PendingKeptAfterTimeout(p, id) == p

\* handle_command line 208: _pending.pop(cmd_id, None)
PendingAfterTimeout(p, id) == Pop(p, id)

\* handle_command lines 205-216: the response built from the future
WaitResponse(f) ==
  CASE f.state = "result"    -> RespResult(f.data)
    [] f.state = "exception" -> RespDisconnected
    [] OTHER                 -> RespTimeout

\* as Expired, but wait_for is given no timeout
ExpiredNever(e) == FALSE

\* as Expired, but the timer fires one tick before the deadline
ExpiredEarly(e) == e >= COMMAND_TIMEOUT_S - TickStep

\* the deadline of wait_for (line 205) has passed
Expired(e) == e >= COMMAND_TIMEOUT_S

\* ---------------------------------------------------------- ws_handler
\* lines 96-111: authenticate, prepare, then either start closing the
\* attached connection (await at line 108) or attach at once
WsConnect(n, authorized) ==
  /\ pcw[n] = "new"
  /\ IF n = 1 THEN TRUE ELSE pcw[n - 1] # "new"
  /\ dropped' = None
  /\ UNCHANGED <<pending, callerVars, wire>>
  /\ IF ~authorized
     THEN /\ pcw' = [pcw EXCEPT ![n] = "rejected"]
          /\ UNCHANGED <<plugin_ws, plugin_meta, closed, closeTarget>>
     ELSE IF ReplaceNeeded(plugin_ws, closed)
     THEN /\ closed' = [closed EXCEPT ![plugin_ws] = TRUE]
          /\ closeTarget' = [closeTarget EXCEPT ![n] = plugin_ws]
          /\ pcw' = [pcw EXCEPT ![n] = "closing"]
          /\ UNCHANGED <<plugin_ws, plugin_meta>>
     ELSE /\ plugin_ws' = n
          /\ plugin_meta' = {}
          /\ pcw' = [pcw EXCEPT ![n] = "loop"]
          /\ UNCHANGED <<closed, closeTarget>>
  /\ UNCHANGED extVars

\* lines 108-111: close() has returned (the old handler left its loop)
WsAttach(n) ==
  /\ pcw[n] = "closing"
  /\ pcw[closeTarget[n]] = "ended"
  /\ plugin_ws' = n
  /\ plugin_meta' = {}
  /\ pcw' = [pcw EXCEPT ![n] = "loop"]
  /\ closeTarget' = [closeTarget EXCEPT ![n] = None]
  /\ dropped' = None
  /\ UNCHANGED <<pending, callerVars, closed, wire>>
  /\ UNCHANGED extVars

\* lines 120-128: the finally block of connection c
Cleanup(c) ==
  /\ plugin_ws' = None
  /\ plugin_meta' = {}
  /\ fut' = FailedFutures(pending, fut)
  /\ pending' = PendingAfterCleanup(pending)
  /\ pcw' = [pcw EXCEPT ![c] = "ended"]
  /\ closed' = [closed EXCEPT ![c] = TRUE]
  /\ wire' = [wire EXCEPT ![c] = <<>>]

\* lines 115, 120-128: the receive loop ends on a closed socket
WsFinally(c) ==
  /\ pcw[c] = "loop"
  /\ closed[c]
  /\ Cleanup(c)
  /\ dropped' = None
  /\ closeTarget' = closeTarget
  /\ UNCHANGED <<pcc, cid, target, elapsed, resp>>
  /\ UNCHANGED extVars

\* the peer closes its end, or the transport is lost
PeerClose(c) ==
  /\ pcw[c] = "loop"
  /\ ~closed[c]
  /\ closed' = [closed EXCEPT ![c] = TRUE]
  /\ dropped' = None
  /\ UNCHANGED <<bridgeVars, callerVars, pcw, closeTarget, wire>>
  /\ UNCHANGED extVars

\* ------------------------------------------------ _handle_plugin_message
\* what a peer can put on its connection: a result echoes an id the peer
\* was sent, or carries an id of its own making
PeerMessages(c) ==
  [kind : {"result"}, id : Range(wire[c]) \cup {JunkId, NoId, BadId},
   payload : {{}}]
  \cup [kind : {"event"}, id : {NoId}, payload : Payloads]
  \cup [kind : {"pong", "other", "nonjson", "nonobject"}, id : {NoId},
        payload : {{}}]

\* the message makes _handle_plugin_message raise: data.get on a value that
\* is not a dict (line 140), or an unhashable id looked up in _pending (155)
Raises(m) == m.kind = "nonobject" \/ (m.kind = "result" /\ m.id = BadId)

\* lines 115-117 with 133-161: one TEXT message of connection c
PluginMessage(c, m) ==
  /\ pcw[c] = "loop"
  /\ ~closed[c]
  /\ dropped' = IF m.kind = "result" /\ m.id \in Ids /\ ~Matches(pending, m.id)
                THEN m.id ELSE None
  /\ UNCHANGED <<pcc, cid, target, elapsed, resp, closeTarget>>
  /\ IF Raises(m)
     THEN Cleanup(c)
     ELSE /\ UNCHANGED <<pcw, closed, wire>>
          /\ plugin_ws' = plugin_ws
          /\ plugin_meta' = IF m.kind = "event"
                            THEN plugin_meta \cup m.payload ELSE plugin_meta
          /\ IF m.kind = "result"
             THEN /\ pending' = PendingAfterResult(pending, m.id)
                  /\ fut' = ResolvedFutures(pending, fut, m.id, [id |-> m.id])
             ELSE UNCHANGED <<pending, fut>>
  /\ UNCHANGED extVars

\* ------------------------------------------------------- handle_command
\* return _json_response(...): the call ends and its locals are released
Finish(k, r) ==
  /\ pcc' = [pcc EXCEPT ![k] = "done"]
  /\ resp' = [resp EXCEPT ![k] = r]
  /\ fut' = [fut EXCEPT ![k] = NoFuture]
  /\ target' = [target EXCEPT ![k] = None]
  /\ elapsed' = [elapsed EXCEPT ![k] = 0]

\* lines 171-174: an authorized POST /command reaches the handler
CommandStart(k) ==
  /\ pcc[k] = "idle"
  /\ IF k = 1 THEN TRUE ELSE pcc[k - 1] # "idle"
  /\ dropped' = None
  /\ UNCHANGED <<bridgeVars, cid, connVars, wire>>
  /\ IF NotConnected(plugin_ws, closed) THEN Finish(k, RespNotConnected)
     ELSE /\ pcc' = [pcc EXCEPT ![k] = "json"]
          /\ UNCHANGED <<resp, fut, target, elapsed>>
  /\ UNCHANGED extVars

\* lines 176-201: the body has been read; reject it, or register the future
\* and call send_str
ReadBody(k, body) ==
  /\ pcc[k] = "json"
  /\ dropped' = None
  /\ UNCHANGED <<plugin_ws, plugin_meta, connVars, wire>>
  /\ IF body = BodyInvalid
     THEN Finish(k, RespInvalidJson) /\ UNCHANGED <<pending, cid>>
     ELSE IF body = NoId
     THEN Finish(k, RespMissingId) /\ UNCHANGED <<pending, cid>>
     ELSE /\ cid' = [cid EXCEPT ![k] = body]
          /\ IF SendRaises(plugin_ws, closed)
             THEN /\ pending' = PendingAfterSendError(
                                   Registered(pending, body, k), body)
                  /\ Finish(k, RespSendFailed)
             ELSE /\ pending' = Registered(pending, body, k)
                  /\ fut' = [fut EXCEPT ![k] = NewFuture]
                  /\ target' = [target EXCEPT ![k] = plugin_ws]
                  /\ pcc' = [pcc EXCEPT ![k] = "sending"]
                  /\ UNCHANGED <<resp, elapsed>>
  /\ UNCHANGED extVars

\* line 196 returns: the command is on the wire; wait_for starts (line 205)
SendOk(k) ==
  /\ pcc[k] = "sending"
  /\ wire' = [wire EXCEPT ![target[k]] =
                IF pcw[target[k]] = "loop" THEN Append(@, cid[k]) ELSE @]
  /\ pcc' = [pcc EXCEPT ![k] = "waiting"]
  /\ dropped' = None
  /\ UNCHANGED <<bridgeVars, fut, cid, target, elapsed, resp, connVars>>
  /\ UNCHANGED extVars

\* lines 197-201: send_str raises after it suspended
SendFail(k) ==
  /\ pcc[k] = "sending"
  /\ pending' = PendingAfterSendError(pending, cid[k])
  /\ Finish(k, RespSendFailed)
  /\ dropped' = None
  /\ UNCHANGED <<plugin_ws, plugin_meta, cid, connVars, wire>>
  /\ UNCHANGED extVars

\* line 205: the timer of wait_for fires and cancels the future
Timeout(k) ==
  /\ pcc[k] = "waiting"
  /\ Expired(elapsed[k])
  /\ fut' = [fut EXCEPT ![k] = Cancel(@)]
  /\ pcc' = [pcc EXCEPT ![k] = "expired"]
  /\ target' = [target EXCEPT ![k] = None]
  /\ elapsed' = [elapsed EXCEPT ![k] = 0]
  /\ dropped' = None
  /\ UNCHANGED <<bridgeVars, cid, resp, connVars, wire>>
  /\ UNCHANGED extVars

\* lines 207-212: the task resumes with TimeoutError
TimeoutReturn(k) ==
  /\ pcc[k] = "expired"
  /\ pending' = PendingAfterTimeout(pending, cid[k])
  /\ Finish(k, RespTimeout)
  /\ dropped' = None
  /\ UNCHANGED <<plugin_ws, plugin_meta, cid, connVars, wire>>
  /\ UNCHANGED extVars

\* lines 205-206, 213-216: the task resumes with the outcome of the future
CallerWake(k) ==
  /\ pcc[k] = "waiting"
  /\ Done(fut[k])
  /\ Finish(k, WaitResponse(fut[k]))
  /\ dropped' = None
  /\ UNCHANGED <<bridgeVars, cid, connVars, wire>>
  /\ UNCHANGED extVars

\* ------------------------------------------------------------ the clock
\* a task of the event loop is runnable
Runnable ==
  \/ \E c \in Conns : pcw[c] = "loop" /\ closed[c]
  \/ \E c \in Conns : pcw[c] = "closing" /\ pcw[closeTarget[c]] = "ended"
  \/ \E k \in Callers : pcc[k] = "expired"
  \/ \E k \in Callers : pcc[k] = "waiting" /\ Done(fut[k])

Min(a, b) == IF a < b THEN a ELSE b

\* TickStep seconds pass while the loop is idle
Tick ==
  /\ ~Runnable
  /\ \E k \in Callers : pcc[k] = "waiting" /\ ~Expired(elapsed[k])
  /\ elapsed' = [k \in Callers |->
                   IF pcc[k] = "waiting"
                   THEN Min(elapsed[k] + TickStep, COMMAND_TIMEOUT_S)
                   ELSE elapsed[k]]
  /\ dropped' = None
  /\ UNCHANGED <<bridgeVars, fut, pcc, cid, target, resp, connVars, wire>>
  /\ UNCHANGED extVars

\* ----------------------------------------------------------- _ping_loop
\* start_background_tasks, line 265: the task is created and sleeps
PingIdle ==
  /\ ping_pc = "sleep"
  /\ ping = [to |-> None, sent |-> FALSE]

\* as PingDue, but without looking at the peer slot
PingDueAlways(ws, truthy, cl) == TRUE

\* line 252: if _plugin_ws and not _plugin_ws.closed.  The truth value of a
\* WebSocketResponse is the platform's: it is a mapping without keys, which
\* some aiohttp releases make true and others leave false.
PingDue(ws, truthy, cl) == IF ws = None THEN FALSE ELSE truthy /\ ~cl[ws]

\* lines 250-261: the sleep of 15 s ends; a ping is sent to the attached
\* peer, the send succeeds or raises (except Exception: pass), and the task
\* sleeps again
Ping(truthy, sent) ==
  /\ ping_pc = "sleep"
  /\ IF PingDue(plugin_ws, truthy, closed)
     THEN /\ ping' = [to |-> plugin_ws, sent |-> sent]
          /\ ping_pc' = "sleep"
     ELSE UNCHANGED pingVars
  /\ Frame("ping")

\* ================================================================ client
\* protocol.py lines 11-18
SUPPORTED_ACTIONS ==
  {"check_auth", "get_runtime_status", "search_component", "read_schema",
   "update_schema", "list_components"}

\* what a caller may put in BridgeCommand.action: the registry and one more
Actions == SUPPORTED_ACTIONS \cup {"delete_schema"}

\* as Validates, but every action is accepted
ValidatesAnything(a) == TRUE

\* BridgeCommand.validate, protocol.py lines 44-47: no ValueError is raised
Validates(a) == a \in SUPPORTED_ACTIONS

\* the moments, in seconds after the POST, at which the bridge may answer
Delays == {n * ClientTick : n \in 0..(COMMAND_TIMEOUT_S \div ClientTick)}

NoReply == [kind |-> "none", status |-> 0, at |-> 0, ok |-> FALSE]

\* What the client can meet when it POSTs /command: no listening bridge
\* (urlopen raises URLError), the 401 of auth_middleware, or one of the
\* responses of handle_command.  The peer's result envelope reports success
\* or an application-level rejection; the timeout response is sent when
\* COMMAND_TIMEOUT_S have passed, the others earlier.
BridgeReplies ==
  {[kind |-> "unreachable", status |-> 0, at |-> 0, ok |-> FALSE],
   [kind |-> "unauthorized", status |-> 401, at |-> 0, ok |-> FALSE],
   [kind |-> RespNotConnected.kind, status |-> RespNotConnected.status,
    at |-> 0, ok |-> FALSE],
   [kind |-> RespSendFailed.kind, status |-> RespSendFailed.status,
    at |-> 0, ok |-> FALSE],
   [kind |-> RespTimeout.kind, status |-> RespTimeout.status,
    at |-> COMMAND_TIMEOUT_S, ok |-> FALSE]}
  \cup {[kind |-> RespDisconnected.kind, status |-> RespDisconnected.status,
         at |-> d, ok |-> FALSE] : d \in Delays \ {COMMAND_TIMEOUT_S}}
  \cup {[kind |-> "result", status |-> 200, at |-> d, ok |-> o] :
          d \in Delays \ {COMMAND_TIMEOUT_S}, o \in BOOLEAN}

\* handle_command lines 190-192 are reached: a pending request is registered
Registers(kind) ==
  kind \in {RespSendFailed.kind, RespTimeout.kind, RespDisconnected.kind,
            "result"}

\* handle_command line 196 returns: the command went to the peer
Transmits(kind) ==
  kind \in {RespTimeout.kind, RespDisconnected.kind, "result"}

\* a dict returned by send_command: the value of "ok", the keys it has and
\* the HTTP status quoted in "error"
Ret(ok, keys, http) == [ok |-> ok, keys |-> keys, http |-> http]
NoRet == Ret(FALSE, {}, 0)

\* BridgeClient._execute, client.py lines 72-90, for a reply that arrived
Execute(r) ==
  IF r.kind = "unreachable"
  THEN Ret(FALSE, {"ok", "error", "details"}, 0)
  ELSE IF ~(200 <= r.status /\ r.status < 300)
  THEN Ret(FALSE, {"ok", "error", "details"}, r.status)
  ELSE Ret(r.ok, {"id", "type", "ok", IF r.ok THEN "result" ELSE "error"}, 0)

ClientInit ==
  /\ c_pc = "idle"
  /\ c_action = "none"
  /\ c_reply = NoReply
  /\ c_clock = 0
  /\ c_ret = NoRet
  /\ c_exc = "none"
  /\ c_registered = {}
  /\ c_wire = {}

\* client.py lines 37-40: command.to_json() validates the action (protocol.py
\* line 50) before anything is sent; then the request is POSTed
SendCommand(a) ==
  /\ c_pc = "idle"
  /\ c_action' = a
  /\ IF Validates(a)
     THEN c_pc' = "posted" /\ c_exc' = c_exc
     ELSE c_pc' = "raised" /\ c_exc' = "ValueError"
  /\ UNCHANGED <<c_reply, c_clock, c_ret, c_registered, c_wire>>
  /\ Frame("client")

\* the bridge takes the request (bridge_server.py lines 74-82, 169-216) and
\* will answer with r
BridgeHandles(r) ==
  /\ c_pc = "posted"
  /\ c_pc' = "waiting"
  /\ c_reply' = r
  /\ c_registered' = IF Registers(r.kind) THEN c_registered \cup {c_action}
                     ELSE c_registered
  /\ c_wire' = IF Transmits(r.kind) THEN c_wire \cup {c_action} ELSE c_wire
  /\ UNCHANGED <<c_action, c_clock, c_ret, c_exc>>
  /\ Frame("client")

\* time passes while urlopen blocks on the socket (client.py line 74)
ClientClock ==
  /\ c_pc = "waiting"
  /\ c_clock < timeout_seconds
  /\ c_clock < c_reply.at
  /\ c_clock' = Min(c_clock + ClientTick, timeout_seconds)
  /\ UNCHANGED <<c_pc, c_action, c_reply, c_ret, c_exc, c_registered, c_wire>>
  /\ Frame("client")

\* client.py lines 74-90: the response arrived and _execute returns a dict
Receive ==
  /\ c_pc = "waiting"
  /\ c_reply.at <= c_clock
  /\ c_pc' = "returned"
  /\ c_ret' = Execute(c_reply)
  /\ UNCHANGED <<c_action, c_reply, c_clock, c_exc, c_registered, c_wire>>
  /\ Frame("client")

\* client.py line 74: no byte arrives within timeout_seconds; the socket read
\* inside urlopen raises TimeoutError, which is neither the HTTPError of line
\* 76 nor the URLError of line 79, so it leaves _execute and send_command
ReadTimeout ==
  /\ c_pc = "waiting"
  /\ c_clock >= timeout_seconds
  /\ c_reply.at > c_clock
  /\ c_pc' = "raised"
  /\ c_exc' = "TimeoutError"
  /\ UNCHANGED <<c_action, c_reply, c_clock, c_ret, c_registered, c_wire>>
  /\ Frame("client")

\* the caller makes another call (main.py line 36: the console loop)
NextCall ==
  /\ c_pc \in {"returned", "raised"}
  /\ c_pc' = "idle"
  /\ c_reply' = NoReply
  /\ c_clock' = 0
  /\ c_ret' = NoRet
  /\ c_exc' = "none"
  /\ UNCHANGED <<c_action, c_registered, c_wire>>
  /\ Frame("client")

ClientNext ==
  \/ \E a \in Actions : SendCommand(a)
  \/ \E r \in BridgeReplies : BridgeHandles(r)
  \/ ClientClock
  \/ Receive
  \/ ReadTimeout
  \/ NextCall

\* ================================================================ issuer
Procs == 1..NumProcs

\* protocol.py line 27: f"cmd-{ms}-{counter}"; two such strings are equal
\* exactly when their numbers are
IdString(ms, n) == <<"cmd", ms, n>>

IssuerInit ==
  /\ i_now = 0
  /\ i_counter = [p \in Procs |-> 0]
  /\ i_issued = {}

\* protocol.py lines 23-27 and 42: process p builds a BridgeCommand, whose id
\* comes from create_command_id
CreateCommandId(p) ==
  /\ i_counter[p] < MaxIssued
  /\ i_counter' = [i_counter EXCEPT ![p] = @ + 1]
  /\ i_issued' = i_issued \cup
       {[proc |-> p, rank |-> i_counter'[p],
         id |-> IdString(i_now, i_counter'[p])]}
  /\ UNCHANGED i_now
  /\ Frame("issuer")

\* a millisecond passes
Millisecond ==
  /\ i_now < MaxNow
  /\ i_now' = i_now + 1
  /\ UNCHANGED <<i_counter, i_issued>>
  /\ Frame("issuer")

IssuerNext ==
  \/ \E p \in Procs : CreateCommandId(p)
  \/ Millisecond

\* ============================================================= verifier
\* JSON values as cli.py sees them.  A float is a multiple of 1/Den, held as
\* its numerator; 2.0 and 2 are different values that are numerically equal.
IntV(n)   == [t |-> "int", v |-> n]
FloatV(h) == [t |-> "float", v |-> h]
StrV(s)   == [t |-> "str", v |-> s]
List(s)   == [t |-> "list", v |-> s]
Tuple(s)  == [t |-> "tuple", v |-> s]
Bool      == [t |-> "bool", v |-> 1]
NoneValue == [t |-> "none", v |-> 0]

\* the items of a list, none for any other value
Items(u) == IF u.t = "list" THEN u.v ELSE <<>>

IsNumber(u) == u.t \in {"int", "float"}

\* the number a value stands for, in units of 1/Den
NumVal(u) == IF u.t = "int" THEN u.v * Den ELSE u.v

\* as NormalizeNumber, but every float is truncated to an integer
NormalizeNumberTruncating(u) ==
  CASE u.t = "bool"  -> NoneValue
    [] u.t = "int"   -> u
    [] u.t = "float" -> IntV(u.v \div Den)
    [] OTHER         -> NoneValue

\* _normalize_number, cli.py lines 94-101
NormalizeNumber(u) ==
  CASE u.t = "bool"  -> NoneValue
    [] u.t = "int"   -> u
    [] u.t = "float" -> IF u.v % Den = 0 THEN IntV(u.v \div Den) ELSE u
    [] OTHER         -> NoneValue

Reversed(s) == [i \in 1..Len(s) |-> s[Len(s) + 1 - i]]

\* Python's tuple comparison a <= b for two tuples of points of one length:
\* the first pair of coordinates that differ decides
RECURSIVE CoordsLeq(_, _)
CoordsLeq(s, t) ==
  IF s = <<>> THEN TRUE
  ELSE IF NumVal(Head(s)) # NumVal(Head(t))
  THEN NumVal(Head(s)) < NumVal(Head(t))
  ELSE CoordsLeq(Tail(s), Tail(t))

Flat(points) == [i \in 1..(2 * Len(points)) |-> points[(i + 1) \div 2][2 - (i % 2)]]

\* cli.py lines 108-113: the points of a line whose coordinates are numbers
PointsOf(norm) == [k \in 1..(Len(norm) \div 2) |-> <<norm[2 * k - 1], norm[2 * k]>>]

\* as CanonicalLine, but the points are kept in the order given
CanonicalLineForward(line) ==
  IF line.t # "list" \/ Len(Items(line)) < 4 \/ Len(Items(line)) % 2 # 0
  THEN NoneValue
  ELSE LET norm == [i \in 1..Len(Items(line)) |-> NormalizeNumber(Items(line)[i])]
       IN  IF \E i \in 1..Len(norm) : norm[i] = NoneValue THEN NoneValue
           ELSE Tuple(PointsOf(norm))

\* _canonical_line, cli.py lines 104-116
CanonicalLine(line) ==
  IF line.t # "list" \/ Len(Items(line)) < 4 \/ Len(Items(line)) % 2 # 0
  THEN NoneValue
  ELSE LET norm == [i \in 1..Len(Items(line)) |-> NormalizeNumber(Items(line)[i])]
       IN  IF \E i \in 1..Len(norm) : norm[i] = NoneValue THEN NoneValue
           ELSE LET forward  == PointsOf(norm)
                    backward == Reversed(forward)
                IN  Tuple(IF CoordsLeq(Flat(forward), Flat(backward)) THEN forward ELSE backward)

\* the lines of a run: lines of 2 to MaxPoints points whose coordinates are
\* integers, integral and other floats; and a line with a boolean, with a
\* string, of odd length, too short, and no list
Lines ==
  LET xs     == {IntV(n) : n \in 0..MaxCoord} \cup {FloatV(Den * MaxCoord)}
      ys     == {IntV(0), FloatV(1)}
      points == {<<x, y>> : x \in xs, y \in ys}
  IN  {List(Flat(ps)) : ps \in UNION {[1..n -> points] : n \in 2..MaxPoints}}
        \cup {List(<<FloatV(Den), IntV(0), Bool, IntV(0)>>),
              List(<<IntV(0), StrV("1"), IntV(1), FloatV(1)>>),
              List(<<IntV(0), IntV(0), IntV(1), IntV(0), IntV(1)>>),
              List(<<IntV(0), IntV(0)>>),
              NoneValue}

\* no line is being canonicalized
CanonIdle ==
  /\ k_pc = "off"
  /\ k_a = NoneValue
  /\ k_b = NoneValue
  /\ k_normA = <<>>
  /\ k_normB = <<>>
  /\ k_keyA = NoneValue
  /\ k_keyB = NoneValue

\* two lines to canonicalize
CanonInit ==
  /\ k_pc = "input"
  /\ k_a \in Lines
  /\ k_b \in Lines
  /\ k_normA = <<>>
  /\ k_normB = <<>>
  /\ k_keyA = NoneValue
  /\ k_keyB = NoneValue

\* cli.py lines 109-110: _normalize_number on every coordinate of both lines
NormalizeStep ==
  /\ k_pc = "input"
  /\ k_pc' = "normalized"
  /\ k_normA' = [i \in 1..Len(Items(k_a)) |-> NormalizeNumber(Items(k_a)[i])]
  /\ k_normB' = [i \in 1..Len(Items(k_b)) |-> NormalizeNumber(Items(k_b)[i])]
  /\ UNCHANGED <<k_a, k_b, k_keyA, k_keyB>>
  /\ Frame("canon")

\* cli.py lines 168 and 211: _canonical_line on both lines
CanonicalStep ==
  /\ k_pc = "normalized"
  /\ k_pc' = "keyed"
  /\ k_keyA' = CanonicalLine(k_a)
  /\ k_keyB' = CanonicalLine(k_b)
  /\ UNCHANGED <<k_a, k_b, k_normA, k_normB>>
  /\ Frame("canon")

CanonNext == NormalizeStep \/ CanonicalStep

\* ---------------------------------------------- _verify_plan_against_schema
\* A JSON object is a record of its keys; every other value carries its type.
IsDict(u) == "t" \notin DOMAIN u

\* dict.get
Get(d, key) == IF key \in DOMAIN d THEN d[key] ELSE NoneValue

\* isinstance(u, str) and u
IsText(u) == IF IsDict(u) THEN FALSE ELSE u.t = "str" /\ u.v # ""

\* isinstance(u, list)
IsList(u) == IF IsDict(u) THEN FALSE ELSE u.t = "list"

\* the dicts among the items of a list; nothing when it is no list
DictItems(u) ==
  IF IsList(u) THEN SelectSeq(u.v, LAMBDA item : IsDict(item)) ELSE <<>>

\* as HasComponent, but x and y need not be numbers
HasComponentAnyPosition(ids, pos) ==
  /\ IsText(Get(ids, "uuid"))
  /\ IsText(Get(ids, "libraryUuid"))

\* cli.py lines 153-164 and 191-202: a component is compared by these fields
HasComponent(ids, pos) ==
  /\ IsText(Get(ids, "uuid"))
  /\ IsText(Get(ids, "libraryUuid"))
  /\ NormalizeNumber(Get(pos, "x")) # NoneValue
  /\ NormalizeNumber(Get(pos, "y")) # NoneValue

ComponentTuple(ids, pos) ==
  <<Get(ids, "uuid").v, Get(ids, "libraryUuid").v,
    NormalizeNumber(Get(pos, "x")), NormalizeNumber(Get(pos, "y"))>>

\* cli.py lines 167-169 and 210-212: a wire is compared by these fields
HasWire(obj) ==
  /\ IsText(Get(obj, "net"))
  /\ CanonicalLine(Get(obj, "line")) # NoneValue

WireTuple(obj) == <<CanonicalLine(Get(obj, "line")), Get(obj, "net").v>>

\* cli.py lines 143-151: the inputs of the operations of one kind
InputsOf(payload, kind) ==
  LET ops == DictItems(Get(payload, "operations"))
      sel == SelectSeq(ops, LAMBDA op :
               IF IsDict(Get(op, "input")) THEN Get(op, "kind") = StrV(kind)
               ELSE FALSE)
  IN  [i \in 1..Len(sel) |-> Get(sel[i], "input")]

\* cli.py lines 152-165
ExpectedComponents(payload) ==
  LET sel == SelectSeq(InputsOf(payload, "create_component"),
                       LAMBDA input : HasComponent(input, input))
  IN  [i \in 1..Len(sel) |-> ComponentTuple(sel[i], sel[i])]

\* cli.py lines 166-170
ExpectedWires(payload) ==
  LET sel == SelectSeq(InputsOf(payload, "create_wire"), HasWire)
  IN  [i \in 1..Len(sel) |-> WireTuple(sel[i])]

\* cli.py line 171
ExpectedNets(payload) ==
  {ExpectedWires(payload)[i][2] : i \in 1..Len(ExpectedWires(payload))}

\* cli.py lines 173-174
SchemaOf(read) ==
  LET result_obj == Get(read, "result")
  IN  IF IsDict(result_obj) THEN Get(result_obj, "schema") ELSE NoneValue

\* cli.py line 190: the "component" of an item, {} when it is no object
ComponentObj(item) ==
  IF IsDict(Get(item, "component")) THEN Get(item, "component") ELSE EmptyDict

\* cli.py lines 185-203
ActualComponents(schema_obj) ==
  LET items == DictItems(Get(schema_obj, "components"))
  IN  {ComponentTuple(ComponentObj(items[i]), items[i]) :
         i \in {j \in 1..Len(items) : HasComponent(ComponentObj(items[j]), items[j])}}

\* cli.py lines 205-213
ActualWires(schema_obj) ==
  LET items == DictItems(Get(schema_obj, "wires"))
  IN  {WireTuple(items[i]) : i \in {j \in 1..Len(items) : HasWire(items[j])}}

\* as ActualNets, but the nets of the snapshot are not collected
ActualNetsForgotten(schema_obj) == {}

\* cli.py line 214
ActualNets(schema_obj) == {w[2] : w \in ActualWires(schema_obj)}

\* sorted() of a set of the names of a run
Sorted(names) ==
  SelectSeq(<<"N1", "N2", "create_component", "create_wire", "delete_component">>,
            LAMBDA n : n \in names)

\* cli.py lines 216-225
MissingComponents(expected, actual) ==
  LET sel == SelectSeq(expected, LAMBDA c : c \notin actual)
  IN  [i \in 1..Len(sel) |->
         [uuid |-> sel[i][1], libraryUuid |-> sel[i][2],
          x |-> sel[i][3], y |-> sel[i][4]]]

\* cli.py lines 227-231
MissingWires(expected, actual) ==
  LET sel == SelectSeq(expected, LAMBDA w : w \notin actual)
  IN  [i \in 1..Len(sel) |-> [line |-> Flat(sel[i][1].v), net |-> sel[i][2]]]

NoSchemaReport ==
  [ok |-> FALSE, error |-> "read_schema result does not contain a schema object"]

\* as Report, but only the components decide
ReportComponentsOnly(expected_components, expected_wires, expected_nets, actual_components, actual_wires, actual_nets) ==
  LET missing_components == MissingComponents(expected_components, actual_components)
      missing_wires      == MissingWires(expected_wires, actual_wires)
      missing_nets       == Sorted(expected_nets \ actual_nets)
  IN  [ok |-> missing_components = <<>>,
       expected |-> [components |-> Len(expected_components),
                     wires |-> Len(expected_wires),
                     nets |-> Sorted(expected_nets)],
       actual |-> [components |-> Cardinality(actual_components),
                   wires |-> Cardinality(actual_wires),
                   nets_count |-> Cardinality(actual_nets)],
       missing_components |-> missing_components,
       missing_wires |-> missing_wires,
       missing_nets |-> missing_nets]

\* cli.py lines 235-250
Report(expected_components, expected_wires, expected_nets, actual_components, actual_wires, actual_nets) ==
  LET missing_components == MissingComponents(expected_components, actual_components)
      missing_wires      == MissingWires(expected_wires, actual_wires)
      missing_nets       == Sorted(expected_nets \ actual_nets)
  IN  [ok |-> missing_components = <<>> /\ missing_wires = <<>> /\ missing_nets = <<>>,
       expected |-> [components |-> Len(expected_components),
                     wires |-> Len(expected_wires),
                     nets |-> Sorted(expected_nets)],
       actual |-> [components |-> Cardinality(actual_components),
                   wires |-> Cardinality(actual_wires),
                   nets_count |-> Cardinality(actual_nets)],
       missing_components |-> missing_components,
       missing_wires |-> missing_wires,
       missing_nets |-> missing_nets]

\* as VerifyPlanAgainstSchema, but a snapshot must hold the plan and no more
VerifyPlanExactly(payload, read) ==
  LET schema_obj == SchemaOf(read)
  IN  IF ~IsDict(schema_obj) THEN NoSchemaReport
      ELSE LET r == Report(ExpectedComponents(payload), ExpectedWires(payload),
                           ExpectedNets(payload), ActualComponents(schema_obj),
                           ActualWires(schema_obj), ActualNets(schema_obj))
           IN  [r EXCEPT !.ok =
                  /\ r.ok
                  /\ Cardinality(ActualComponents(schema_obj)) <= r.expected.components
                  /\ Cardinality(ActualWires(schema_obj)) <= r.expected.wires]

\* as VerifyPlanAgainstSchema, but the operations are looked at first
VerifyPlanOperationsFirst(payload, read) ==
  LET schema_obj == SchemaOf(read)
  IN  IF ~IsDict(schema_obj) /\ Len(ExpectedComponents(payload)) + Len(ExpectedWires(payload)) = 0
      THEN NoSchemaReport
      ELSE Report(ExpectedComponents(payload), ExpectedWires(payload),
                  ExpectedNets(payload), {}, {}, {})

\* _verify_plan_against_schema, cli.py lines 136-250
VerifyPlanAgainstSchema(payload, read) ==
  LET schema_obj == SchemaOf(read)
  IN  IF ~IsDict(schema_obj) THEN NoSchemaReport
      ELSE Report(ExpectedComponents(payload), ExpectedWires(payload),
                  ExpectedNets(payload), ActualComponents(schema_obj),
                  ActualWires(schema_obj), ActualNets(schema_obj))

\* the values the plans and snapshots of a run are made of: a line, the
\* same line reversed and written with floats, another line, a malformed one
LineA    == List(<<IntV(0), IntV(0), IntV(MaxCoord), IntV(0)>>)
LineARev == List(<<FloatV(Den * MaxCoord), IntV(0), FloatV(0), IntV(0)>>)

Positions == {IntV(MaxCoord), FloatV(Den * MaxCoord), FloatV(1)}

ComponentInput(uuid, x) ==
  [uuid |-> StrV(uuid), libraryUuid |-> StrV("LIB1"), x |-> x, y |-> IntV(0)]

WireInput(net, line) == [net |-> StrV(net), line |-> line]

WireInputs ==
  {WireInput("N1", line) :
     line \in {LineA, LineARev,
               List(<<IntV(0), IntV(0), IntV(MaxCoord), FloatV(1)>>),
               List(<<IntV(0), IntV(0), Bool, IntV(0)>>)}}
    \cup {WireInput("N2", LineA)}

Op(kind, input) == [kind |-> StrV(kind), input |-> input]

Operations ==
  {Op("create_component", ComponentInput("U1", x)) : x \in Positions}
    \cup {Op("create_component", ComponentInput("U2", IntV(MaxCoord))),
          Op("create_component", ComponentInput("", IntV(MaxCoord)))}
    \cup {Op("create_wire", input) : input \in WireInputs}
    \cup {Op("delete_component", ComponentInput("U1", IntV(MaxCoord))),
          Op("create_component", NoneValue)}

\* a component as read_schema lists it
ComponentItem(uuid, x) ==
  [component |-> [uuid |-> StrV(uuid), libraryUuid |-> StrV("LIB1")],
   x |-> x, y |-> IntV(0)]

ComponentItems ==
  {ComponentItem("U1", x) : x \in Positions}
    \cup {ComponentItem("U2", IntV(MaxCoord)),
          [component |-> NoneValue, x |-> IntV(MaxCoord), y |-> IntV(0)]}


Snapshot(components, wires) ==
  [ok |-> TRUE,
   result |-> [schema |-> [components |-> List(components), wires |-> List(wires)]]]

\* read_schema results without a schema object
NoSchemaResults ==
  {[ok |-> TRUE, result |-> NoneValue],
   [ok |-> TRUE, result |-> [schema |-> NoneValue]],
   [ok |-> TRUE, result |-> [schema |-> List(<<>>)]]}

HasSchema(read) == IsDict(SchemaOf(read))

SchemaComponents(read) == Items(Get(SchemaOf(read), "components"))
SchemaWires(read)      == Items(Get(SchemaOf(read), "wires"))

NoReport == [ok |-> FALSE]

\* nothing is being verified
VerifyIdle ==
  /\ v_payload = [operations |-> NoneValue]
  /\ v_read = [ok |-> TRUE, result |-> NoneValue]
  /\ v_report = NoReport

\* a plan and a read_schema result to verify it against
VerifyInit ==
  /\ v_payload \in
       {[operations |-> List(ops)] :
          ops \in UNION {[1..n -> Operations] : n \in 0..MaxOps}}
         \cup {[operations |-> NoneValue]}
  /\ v_read \in NoSchemaResults \cup
       {Snapshot(cs, ws) :
          cs \in UNION {[1..n -> ComponentItems] : n \in 0..1},
          ws \in UNION {[1..n -> WireInputs] : n \in 0..1}}
  /\ v_report = NoReport

\* cli.py lines 484-498: the plan is verified against the snapshot
Verify ==
  /\ v_report = NoReport
  /\ v_report' = VerifyPlanAgainstSchema(v_payload, v_read)
  /\ UNCHANGED <<v_payload, v_read>>
  /\ Frame("verify")

\* the schema has one more component, and the plan is verified against it
MoreComponents(item) ==
  /\ v_report # NoReport
  /\ HasSchema(v_read)
  /\ Len(SchemaComponents(v_read)) < MaxItems
  /\ v_read' = Snapshot(Append(SchemaComponents(v_read), item), SchemaWires(v_read))
  /\ v_report' = VerifyPlanAgainstSchema(v_payload, v_read')
  /\ UNCHANGED v_payload
  /\ Frame("verify")

\* the schema has one more wire, and the plan is verified against it
MoreWires(item) ==
  /\ v_report # NoReport
  /\ HasSchema(v_read)
  /\ Len(SchemaWires(v_read)) < MaxItems
  /\ v_read' = Snapshot(SchemaComponents(v_read), Append(SchemaWires(v_read), item))
  /\ v_report' = VerifyPlanAgainstSchema(v_payload, v_read')
  /\ UNCHANGED v_payload
  /\ Frame("verify")

VerifyNext ==
  \/ Verify
  \/ \E item \in ComponentItems : MoreComponents(item)
  \/ \E item \in WireInputs : MoreWires(item)

\* ----------------------------------------------------- cmd_apply_requirements
\* the command line: every flag of apply_requirements that decides the flow
Args ==
  [dry_run : BOOLEAN, confirm : BOOLEAN, skip_pre_dry_run : BOOLEAN,
   skip_verify : BOOLEAN, no_audit : BOOLEAN, no_auto_resolve : BOOLEAN,
   output_payload_file : BOOLEAN]

\* a command as the peer sees it: its action and its meta
Command(action, confirm, dry_run) ==
  [action |-> action, confirm |-> confirm, dry_run |-> dry_run]

\* what send_command gives back: the uniform answer of a failed call, or the
\* peer's result message; or it raises (the socket timeout of client.py)
Failures ==
  {[ok |-> FALSE, error |-> e] : e \in {"HTTP 503", "HTTP 504", "rejected"}}

Success(result) == [ok |-> TRUE, result |-> result]

TimeoutError == [raised |-> "TimeoutError"]

\* bool(reply.get("ok"))
Ok(reply) == IF "ok" \in DOMAIN reply THEN reply.ok ELSE FALSE

\* as RequiredOperations, without the wires
RequiredComponentsOnly == {"create_component"}

\* the operation kinds the precheck asks for, cli.py line 436
RequiredOperations == {"create_component", "create_wire"}

\* an "available" list of the given kinds
Available(kinds) ==
  [available |->
     List(SelectSeq(<<StrV("create_component"), StrV("create_wire"),
                      StrV("delete_component")>>, LAMBDA k : k.v \in kinds))]

\* results of get_runtime_status: the capability list at the root, under
\* "status" or under "capabilities", whole, partial, malformed or absent
CapabilityResults ==
  LET lists == {Available(kinds) : kinds \in SUBSET RequiredOperations}
                 \cup {Available(RequiredOperations \cup {"delete_component"}),
                       [available |-> List(<<IntV(1), StrV("create_wire")>>)]}
      full  == Available(RequiredOperations)
      bad   == {NoneValue, [available |-> NoneValue]}
  IN  {NoneValue, EmptyDict}
        \cup {[update_operations |-> u] : u \in lists \cup bad}
        \cup {[status |-> [update_operations |-> u]] : u \in lists}
        \cup {[capabilities |-> [update_operations |-> u]] : u \in lists}
        \cup {[update_operations |-> u, status |-> [update_operations |-> full]] :
                u \in bad \cup {Available({"create_wire"})}}
        \cup {[status |-> NoneValue, capabilities |-> [update_operations |-> full]]}

\* as ExtractAvailableUpdateOperations, but a reply without a list of
\* available operations is taken to allow every operation
ExtractOrAllowAll(runtime_result) ==
  LET root == Get(runtime_result, "result")
      candidates == IF IsDict(root)
                    THEN <<root, Get(root, "status"), Get(root, "capabilities")>>
                    ELSE <<>>
      Lists(c) == IF ~IsDict(c) THEN FALSE
                  ELSE IF ~IsDict(Get(c, "update_operations")) THEN FALSE
                  ELSE IsList(Get(Get(c, "update_operations"), "available"))
      found == SelectSeq(candidates, Lists)
  IN  IF found = <<>> THEN {"create_component", "create_wire"}
      ELSE LET available == Get(Get(found[1], "update_operations"), "available").v
           IN  {available[i].v : i \in {j \in 1..Len(available) : available[j].t = "str"}}

\* _extract_available_update_operations, cli.py lines 119-133
ExtractAvailableUpdateOperations(runtime_result) ==
  LET root == Get(runtime_result, "result")
      candidates == IF IsDict(root)
                    THEN <<root, Get(root, "status"), Get(root, "capabilities")>>
                    ELSE <<>>
      Lists(c) == IF ~IsDict(c) THEN FALSE
                  ELSE IF ~IsDict(Get(c, "update_operations")) THEN FALSE
                  ELSE IsList(Get(Get(c, "update_operations"), "available"))
      found == SelectSeq(candidates, Lists)
  IN  IF found = <<>> THEN {}
      ELSE LET available == Get(Get(found[1], "update_operations"), "available").v
           IN  {available[i].v : i \in {j \in 1..Len(available) : available[j].t = "str"}}

\* the plans the compiler hands over: create_component and create_wire
\* operations only
CompiledPlans ==
  LET placed == Op("create_component", ComponentInput("U1", IntV(MaxCoord)))
      wired  == Op("create_wire", WireInput("N1", LineA))
  IN  {[operations |-> List(ops)] : ops \in {<<placed>>, <<placed, wired>>, <<wired>>}}

\* results of read_schema
SchemaResults ==
  LET placed == ComponentItem("U1", FloatV(Den * MaxCoord))
      wired  == WireInput("N1", LineARev)
  IN  {Snapshot(cs, ws).result : cs \in {<<>>, <<placed>>}, ws \in {<<>>, <<wired>>}}
        \cup {r.result : r \in NoSchemaResults}

\* the place of a reply before the command is sent
NotSent == [ok |-> FALSE]

\* no flow has been started
ApplyIdle ==
  /\ a_pc = "idle"
  /\ a_args = [dry_run |-> FALSE, confirm |-> FALSE, skip_pre_dry_run |-> FALSE,
               skip_verify |-> FALSE, no_audit |-> FALSE, no_auto_resolve |-> FALSE,
               output_payload_file |-> FALSE]
  /\ a_plan = [operations |-> NoneValue]
  /\ a_sent = <<>>
  /\ a_got = [search |-> NotSent, runtime |-> NotSent, pre_dry_run |-> NotSent,
              apply |-> NotSent, read |-> NotSent]
  /\ a_out = NotSent
  /\ a_audit = <<>>
  /\ a_file = FALSE
  /\ a_exit = "running"

\* _error, cli.py lines 45-47: the flow ends with a structured error
Error(message, details) ==
  /\ a_pc' = "done"
  /\ a_out' = [ok |-> FALSE, error |-> message, details |-> details]
  /\ a_exit' = "1"
  /\ UNCHANGED a_audit

\* an exception leaves cmd_apply_requirements
Raise ==
  /\ a_pc' = "done"
  /\ a_exit' = "raised"
  /\ UNCHANGED <<a_out, a_audit>>

\* cli.py lines 470-473 and 524-528: the report is written to the audit
\* directory unless --no-audit, and printed
Output(report) ==
  /\ a_pc' = "done"
  /\ a_audit' = IF a_args.no_audit THEN a_audit ELSE Append(a_audit, report)
  /\ a_out' = IF a_args.no_audit THEN report
              ELSE Put(report, "audit_report_file", "apply_requirements.json")
  /\ a_exit' = IF report.ok THEN "0" ELSE "1"

\* as FinalReport, but the outcome is that of the apply command alone
FinalReportOfApplyAlone(got, verification) ==
  Output([ok |-> Ok(got.apply),
          mode |-> IF a_args.dry_run THEN "dry_run" ELSE "apply",
          output_payload_file |-> a_args.output_payload_file,
          runtime_precheck |-> got.runtime,
          pre_dry_run |-> got.pre_dry_run,
          bridge_result |-> got.apply,
          verification |-> verification])

\* cli.py lines 509-528
FinalReport(got, verification) ==
  Output([ok |-> IF verification = NoneValue THEN Ok(got.apply)
                 ELSE Ok(got.apply) /\ Ok(verification),
          mode |-> IF a_args.dry_run THEN "dry_run" ELSE "apply",
          output_payload_file |-> a_args.output_payload_file,
          runtime_precheck |-> got.runtime,
          pre_dry_run |-> got.pre_dry_run,
          bridge_result |-> got.apply,
          verification |-> verification])

\* as SearchFailed, but the outcome of the lookup is not looked at
SearchFailedIgnored(search) == FALSE

\* cli.py lines 64-65: if not result.get("ok"): raise RequirementsError
SearchFailed(search) == search # NotSent /\ ~Ok(search)

\* as Refused, but a flow without --confirm and without --dry-run goes on
RefusedNever(args) == FALSE

\* cli.py line 414: if not args.dry_run and not args.confirm
Refused(args) == ~args.dry_run /\ ~args.confirm

\* cli.py lines 411-429: the flags are checked and the plan is compiled,
\* with searches through the bridge unless --no-auto-resolve
ApplyStart(args, search, compiled) ==
  /\ a_pc = "idle"
  /\ a_args' = args
  /\ IF Refused(args)
     THEN /\ Error("apply_requirements requires confirmation", NoneValue)
          /\ UNCHANGED <<a_plan, a_sent, a_got, a_file>>
     ELSE /\ search = NotSent \/ ~args.no_auto_resolve
          /\ a_got' = [a_got EXCEPT !.search = IF search = TimeoutError
                                               THEN NotSent ELSE search]
          /\ Validates("search_component")
          /\ a_sent' = IF search = NotSent THEN <<>>
                       ELSE <<Command("search_component", FALSE, FALSE)>>
          /\ IF search = TimeoutError
             THEN Raise /\ UNCHANGED <<a_plan, a_file>>
             ELSE IF SearchFailed(search)
             THEN /\ Error("Unable to build requirements payload", NoneValue)
                  /\ UNCHANGED <<a_plan, a_file>>
             ELSE IF compiled = [raised |-> "RequirementsError"]
             THEN /\ Error("Unable to build requirements payload", NoneValue)
                  /\ UNCHANGED <<a_plan, a_file>>
             ELSE IF compiled = [raised |-> "OSError"]
             THEN /\ args.output_payload_file
                  /\ Error("Unable to write output payload file", NoneValue)
                  /\ UNCHANGED <<a_plan, a_file>>
             ELSE /\ compiled \in CompiledPlans
                  /\ a_plan' = compiled
                  /\ a_file' = args.output_payload_file
                  /\ a_pc' = "compiled"
                  /\ UNCHANGED <<a_out, a_audit, a_exit>>
  /\ Frame("apply")

\* cli.py lines 431-445: the runtime precheck
Precheck(reply) ==
  /\ a_pc = "compiled"
  /\ Validates("get_runtime_status")
  /\ a_sent' = Append(a_sent, Command("get_runtime_status", FALSE, FALSE))
  /\ UNCHANGED <<a_args, a_plan, a_file>>
  /\ IF reply = TimeoutError
     THEN Raise /\ UNCHANGED a_got
     ELSE /\ a_got' = [a_got EXCEPT !.runtime = reply]
          /\ IF ~Ok(reply)
             THEN Error("Runtime precheck failed", reply)
             ELSE LET available_ops == ExtractAvailableUpdateOperations(reply)
                      missing_ops   == Sorted(RequiredOperations \ available_ops)
                  IN  IF missing_ops # <<>>
                      THEN Error("Runtime precheck failed: required operations unavailable",
                                 [missing_operations |-> missing_ops,
                                  available_operations |-> Sorted(available_ops),
                                  runtime_result |-> reply])
                      ELSE /\ a_pc' = IF a_args.skip_pre_dry_run
                                      THEN "checked" ELSE "prechecked"
                           /\ UNCHANGED <<a_out, a_audit, a_exit>>
  /\ Frame("apply")

\* as PreDryRun, but the flow goes on whatever the dry run says
PreDryRunIgnored(reply) ==
  /\ a_pc = "prechecked"
  /\ a_sent' = Append(a_sent, Command("update_schema", TRUE, TRUE))
  /\ UNCHANGED <<a_args, a_plan, a_file>>
  /\ IF reply = TimeoutError
     THEN Raise /\ UNCHANGED a_got
     ELSE /\ a_got' = [a_got EXCEPT !.pre_dry_run = reply]
          /\ a_pc' = "checked"
          /\ UNCHANGED <<a_out, a_audit, a_exit>>
  /\ Frame("apply")

\* cli.py lines 447-473: the dry run before the apply
PreDryRun(reply) ==
  /\ a_pc = "prechecked"
  /\ Validates("update_schema")
  /\ a_sent' = Append(a_sent, Command("update_schema", TRUE, TRUE))
  /\ UNCHANGED <<a_args, a_plan, a_file>>
  /\ IF reply = TimeoutError
     THEN Raise /\ UNCHANGED a_got
     ELSE /\ a_got' = [a_got EXCEPT !.pre_dry_run = reply]
          /\ IF ~Ok(reply)
             THEN Output([ok |-> FALSE,
                          mode |-> "precheck_dry_run",
                          runtime_precheck |-> a_got.runtime,
                          pre_dry_run |-> reply,
                          bridge_result |-> NoneValue,
                          verification |-> NoneValue])
             ELSE /\ a_pc' = "checked"
                  /\ UNCHANGED <<a_out, a_audit, a_exit>>
  /\ Frame("apply")

\* as ApplyPlan, but a dry run is verified like an apply
ApplyPlanAlwaysVerified(reply) ==
  /\ a_pc = "checked"
  /\ a_sent' = Append(a_sent,
       Command("update_schema",
               IF a_args.dry_run THEN TRUE ELSE a_args.confirm, a_args.dry_run))
  /\ UNCHANGED <<a_args, a_plan, a_file>>
  /\ IF reply = TimeoutError
     THEN Raise /\ UNCHANGED a_got
     ELSE /\ a_got' = [a_got EXCEPT !.apply = reply]
          /\ IF Ok(reply) /\ ~a_args.skip_verify
             THEN /\ a_pc' = "applied"
                  /\ UNCHANGED <<a_out, a_audit, a_exit>>
             ELSE FinalReport(a_got', NoneValue)
  /\ Frame("apply")

\* as ApplyPlan, but a failed apply is sent again
ApplyPlanRetried(reply) ==
  /\ a_pc = "checked"
  /\ a_sent' = Append(a_sent,
       Command("update_schema",
               IF a_args.dry_run THEN TRUE ELSE a_args.confirm, a_args.dry_run))
  /\ UNCHANGED <<a_args, a_plan, a_file>>
  /\ IF reply = TimeoutError
     THEN Raise /\ UNCHANGED a_got
     ELSE /\ a_got' = [a_got EXCEPT !.apply = reply]
          /\ IF ~Ok(reply)
             THEN UNCHANGED <<a_pc, a_out, a_audit, a_exit>>
             ELSE IF ~a_args.skip_verify /\ ~a_args.dry_run
             THEN /\ a_pc' = "applied"
                  /\ UNCHANGED <<a_out, a_audit, a_exit>>
             ELSE FinalReport(a_got', NoneValue)
  /\ Frame("apply")

\* cli.py lines 475-485 (and 509-528 when no verification follows): the apply
ApplyPlan(reply) ==
  /\ a_pc = "checked"
  /\ Validates("update_schema")
  /\ a_sent' = Append(a_sent,
       Command("update_schema",
               IF a_args.dry_run THEN TRUE ELSE a_args.confirm, a_args.dry_run))
  /\ UNCHANGED <<a_args, a_plan, a_file>>
  /\ IF reply = TimeoutError
     THEN Raise /\ UNCHANGED a_got
     ELSE /\ a_got' = [a_got EXCEPT !.apply = reply]
          /\ IF Ok(reply) /\ ~a_args.skip_verify /\ ~a_args.dry_run
             THEN /\ a_pc' = "applied"
                  /\ UNCHANGED <<a_out, a_audit, a_exit>>
             ELSE FinalReport(a_got', NoneValue)
  /\ Frame("apply")

\* cli.py lines 486-528: the schema is read back and the plan verified
ReadBack(reply) ==
  /\ a_pc = "applied"
  /\ Validates("read_schema")
  /\ a_sent' = Append(a_sent, Command("read_schema", FALSE, FALSE))
  /\ UNCHANGED <<a_args, a_plan, a_file>>
  /\ IF reply = TimeoutError
     THEN Raise /\ UNCHANGED a_got
     ELSE /\ a_got' = [a_got EXCEPT !.read = reply]
          /\ FinalReport(a_got,
               IF Ok(reply) THEN VerifyPlanAgainstSchema(a_plan, reply)
               ELSE [ok |-> FALSE,
                     error |-> "Unable to read schema for post-apply verification",
                     read_schema_result |-> reply])
  /\ Frame("apply")

ApplyNext ==
  \/ \E args \in Args,
        search \in Failures \cup {NotSent, Success(NoneValue), TimeoutError},
        compiled \in CompiledPlans \cup {[raised |-> e] : e \in {"RequirementsError", "OSError"}} :
       ApplyStart(args, search, compiled)
  \/ \E reply \in Failures \cup {TimeoutError} \cup {Success(r) : r \in CapabilityResults} :
       Precheck(reply)
  \/ \E reply \in Failures \cup {TimeoutError, Success(NoneValue)} : PreDryRun(reply)
  \/ \E reply \in Failures \cup {TimeoutError, Success(NoneValue)} : ApplyPlan(reply)
  \/ \E reply \in Failures \cup {TimeoutError} \cup {Success(r) : r \in SchemaResults} :
       ReadBack(reply)

\* ------------------------------------------------------- specifications
Init ==
  /\ BridgeInit /\ ClientInit /\ IssuerInit /\ CanonIdle /\ VerifyIdle /\ ApplyIdle
  /\ PingIdle

Next ==
  \/ \E n \in Conns, a \in BOOLEAN : WsConnect(n, a)
  \/ \E n \in Conns : WsAttach(n)
  \/ \E c \in Conns : WsFinally(c)
  \/ \E c \in Conns : PeerClose(c)
  \/ \E c \in Conns : \E m \in PeerMessages(c) : PluginMessage(c, m)
  \/ \E k \in Callers : CommandStart(k)
  \/ \E k \in Callers, b \in Bodies : ReadBody(k, b)
  \/ \E k \in Callers : SendOk(k)
  \/ \E k \in Callers : SendFail(k)
  \/ \E k \in Callers : Timeout(k)
  \/ \E k \in Callers : TimeoutReturn(k)
  \/ \E k \in Callers : CallerWake(k)
  \/ Tick

Spec == Init /\ [][Next]_vars

\* The event loop runs every runnable task, timers fire, time passes, and
\* an awaited send_str or close() returns.
Fairness ==
  /\ \A k \in Callers : WF_vars(CallerWake(k))
  /\ \A k \in Callers : WF_vars(Timeout(k))
  /\ \A k \in Callers : WF_vars(TimeoutReturn(k))
  /\ \A k \in Callers : WF_vars(SendOk(k) \/ SendFail(k))
  /\ \A c \in Conns : WF_vars(WsFinally(c))
  /\ \A c \in Conns : WF_vars(WsAttach(c))
  /\ WF_vars(Tick)

LiveSpec == Init /\ [][Next]_vars /\ Fairness

\* one caller driving BridgeClient.send_command against the bridge
ClientSpec == Init /\ [][ClientNext]_vars

\* several issuer processes creating commands for one bridge
IssuerSpec == Init /\ [][IssuerNext]_vars

\* _canonical_line applied to every pair of lines
CanonStart ==
  /\ BridgeInit /\ ClientInit /\ IssuerInit /\ CanonInit /\ VerifyIdle /\ ApplyIdle
  /\ PingIdle

CanonSpec == CanonStart /\ [][CanonNext]_vars

\* _verify_plan_against_schema applied to every plan and snapshot
VerifyStart ==
  /\ BridgeInit /\ ClientInit /\ IssuerInit /\ CanonIdle /\ VerifyInit /\ ApplyIdle
  /\ PingIdle

VerifySpec == VerifyStart /\ [][VerifyNext]_vars

\* plans made of operations that lack a field or are of another kind, and
\* of one complete component and one complete wire; snapshots with a schema
\* object, empty or not, and results without one
PlanStart ==
  LET placed == ComponentInput("U1", IntV(MaxCoord))
      wired  == WireInput("N1", LineA)
      ops == {Op("create_component", placed), Op("create_wire", wired),
              Op("delete_component", placed), Op("update_wire", wired),
              Op("create_component", NoneValue), Op("create_wire", List(<<>>)),
              Op("create_component", [placed EXCEPT !.uuid = StrV("")]),
              Op("create_component", [placed EXCEPT !.uuid = IntV(1)]),
              Op("create_component", [libraryUuid |-> StrV("LIB1"),
                                      x |-> IntV(0), y |-> IntV(0)]),
              Op("create_component", [placed EXCEPT !.libraryUuid = StrV("")]),
              Op("create_component", [placed EXCEPT !.x = Bool]),
              Op("create_component", [placed EXCEPT !.y = StrV("0")]),
              Op("create_component", [uuid |-> StrV("U1"),
                                      libraryUuid |-> StrV("LIB1"), x |-> IntV(0)]),
              Op("create_wire", WireInput("", LineA)),
              Op("create_wire", [line |-> LineA]),
              Op("create_wire", [net |-> StrV("N1")]),
              Op("create_wire", WireInput("N1", List(<<IntV(0), IntV(0)>>))),
              Op("create_wire", WireInput("N1", List(<<IntV(0), IntV(0), Bool, IntV(0)>>))),
              StrV("create_component"), NoneValue}
  IN  /\ BridgeInit /\ ClientInit /\ IssuerInit /\ CanonIdle /\ ApplyIdle /\ PingIdle
      /\ v_payload \in
           {[operations |-> List(o)] : o \in UNION {[1..n -> ops] : n \in 0..MaxOps}}
             \cup {[operations |-> NoneValue], EmptyDict}
      /\ v_read \in NoSchemaResults \cup
           {Snapshot(<<>>, <<>>),
            Snapshot(<<ComponentItem("U1", IntV(MaxCoord))>>, <<wired>>)}
      /\ v_report = NoReport

\* _verify_plan_against_schema applied to plans of incomplete operations
PlanSpec == PlanStart /\ [][Verify]_vars

\* runs of cmd_apply_requirements against every bridge and peer
ApplySpec == Init /\ [][ApplyNext]_vars

\* the bridge with its liveness task
PingNext ==
  \/ Next
  \/ \E truthy, sent \in BOOLEAN : Ping(truthy, sent)

PingSpec == Init /\ [][PingNext]_vars

\* ------------------------------------------------------------ properties
TypeOK ==
  /\ plugin_ws \in Conns \cup {None}
  /\ plugin_meta \subseteq {"caps"}
  /\ DOMAIN pending \subseteq Ids
  /\ \A i \in DOMAIN pending : pending[i] \in Callers

\* the call has registered its future and has not returned
InFlight(k) == pcc[k] \in {"sending", "waiting", "expired"}

\* the pending map holds the future of call k
Owns(k) == cid[k] \in DOMAIN pending /\ pending[cid[k]] = k

\* call k is registered and its future is neither resolved nor cancelled
Unfailed(k) ==
  pcc[k] \in {"sending", "waiting"} /\ fut[k].state = "pending" /\ Owns(k)

\* no two calls carry the same id
UniqueIds ==
  \A j, k \in Callers : j # k /\ cid[j] # NoId => cid[j] # cid[k]

\* C1: a caller that is given a result is given the result message that
\* carries its own command id, whatever the order of the replies.
C1_ReplyToIssuer ==
  \A k \in Callers :
    /\ fut[k].state = "result" => fut[k].data.id = cid[k]
    /\ resp[k].kind = "result" => pcc[k] = "done" /\ resp[k].data.id = cid[k]

\* two commands with distinct ids went to one peer, and the second one sent
\* has its result while the first one sent still waits
C1_Witness ==
  \E c \in Conns, j, k \in Callers :
    /\ Len(wire[c]) = 2
    /\ wire[c][1] = cid[j] /\ wire[c][2] = cid[k] /\ cid[j] # cid[k]
    /\ Unfailed(j) /\ pcc[j] = "waiting"
    /\ resp[k] = RespResult([id |-> cid[k]])

\* C3: when a connection replaces a peer, the requests of the old peer are
\* failed before the new connection is attached: the peer slot never holds a
\* connection while a request handed to another connection is still unfailed
\* in the pending map.
C3_NewPeerAfterOldFailed ==
  \A k \in Callers :
    Unfailed(k) /\ plugin_ws # None => target[k] = plugin_ws

\* C4: a call registers its request only against an attached, open
\* connection whose handler still runs; a call that finds the slot empty or
\* the connection closed when it transmits ends with the transport error and
\* leaves nothing in the map; and at every moment each entry of the map
\* belongs to a call that has not returned, each unfailed request to a
\* connection whose cleanup is still to come.
C4_Registration(k) ==
  pcc[k] = "json" /\ pcc'[k] = "sending" =>
    /\ plugin_ws # None /\ ~closed[plugin_ws] /\ pcw[plugin_ws] = "loop"
    /\ target'[k] = plugin_ws

C4_Refusal(k) ==
  pcc[k] = "json" /\ pcc'[k] = "done" /\ cid'[k] # NoId =>
    /\ plugin_ws = None \/ closed[plugin_ws]
    /\ resp'[k] = RespSendFailed
    /\ pending' = Pop(pending, cid'[k])

C4_NotLeftWaiting ==
  /\ \A i \in DOMAIN pending : InFlight(pending[i]) /\ cid[pending[i]] = i
  /\ \A k \in Callers : Unfailed(k) => pcw[target[k]] = "loop"

C4_NoRegistrationOnTeardown ==
  [][/\ \A k \in Callers : C4_Registration(k) /\ C4_Refusal(k)
     /\ C4_NotLeftWaiting']_vars

\* a call that passed its check while a peer was attached was suspended in
\* request.json(), found the peer slot empty afterwards and was refused
C4_Witness ==
  \E k \in Callers :
    /\ resp[k] = RespSendFailed
    /\ plugin_ws = None
    /\ \E c \in Conns : pcw[c] = "ended"
    /\ \A j \in Callers \ {k} : pcc[j] = "idle"

\* C5: the timer of a call fires only when the call has waited
\* COMMAND_TIMEOUT_S without its future being consumed; the call then
\* returns the timeout error, status 504, which differs from the disconnect
\* error, status 502, and its id is not in the pending map when it returns.
C5_TimeoutReported ==
  [][\A k \in Callers :
       /\ pcc[k] = "waiting" /\ pcc'[k] = "expired" =>
            elapsed[k] >= COMMAND_TIMEOUT_S
       /\ pcc[k] # "done" /\ pcc'[k] = "done" /\ resp'[k].kind = "timeout" =>
            /\ pcc[k] = "expired"
            /\ resp'[k].status = 504
            /\ resp'[k].status # RespDisconnected.status
            /\ cid[k] \notin DOMAIN pending'
       /\ pcc[k] = "expired" /\ pcc'[k] # "expired" =>
            pcc'[k] = "done" /\ resp'[k] = RespTimeout]_vars

\* a command that got no reply has returned the timeout error
C5_Witness ==
  \E k \in Callers :
    /\ pcc[k] = "done" /\ resp[k] = RespTimeout
    /\ cid[k] \notin DOMAIN pending
    /\ \E c \in Conns : pcw[c] = "loop" /\ ~closed[c] /\ cid[k] \in Range(wire[c])

\* the command with id i has returned the timeout error, and no other call
\* carries id i
TimedOut(i) ==
  /\ \E k \in Callers : pcc[k] = "done" /\ resp[k] = RespTimeout /\ cid[k] = i
  /\ \A j, k \in Callers : cid[j] = i /\ cid[k] = i => j = k

\* C6: a result message for an id whose command has timed out changes
\* neither the pending map, the peer slot, the peer metadata, a future nor a
\* response: it is delivered to no caller.
C6_LateReplyDiscarded ==
  [][\A c \in Conns : \A m \in PeerMessages(c) :
       m.kind = "result" /\ m.id \in Ids /\ TimedOut(m.id)
         /\ PluginMessage(c, m)
       => UNCHANGED <<pending, plugin_ws, plugin_meta, fut, resp, pcc>>]_vars

\* the reply to a command that has timed out has just been discarded
C6_Witness ==
  \E k \in Callers :
    pcc[k] = "done" /\ resp[k] = RespTimeout /\ dropped = cid[k]
      /\ TimedOut(cid[k])

\* C7: a future is set at most once (by a reply, by the disconnect or by the
\* timer), it is done exactly when it has been set, and a call that has
\* returned has one response.
C7_ResolvedOnce ==
  \A k \in Callers :
    /\ fut[k].sets <= 1
    /\ Done(fut[k]) <=> fut[k].sets = 1
    /\ pcc[k] = "done" <=> resp[k] # NoResp

\* the timer has cancelled the future of a call, and after that a reply or a
\* disconnect found the future done and took its entry out of the map
C7_Witness ==
  \E k \in Callers :
    /\ pcc[k] = "expired"
    /\ fut[k].state = "cancelled"
    /\ cid[k] \notin DOMAIN pending
    /\ \A j \in Callers \ {k} : pcc[j] = "idle"

\* C9: the request is in the pending map under its id when send_str is
\* called and nothing is on the wire yet; a call whose send_str raises
\* returns the transport error, status 502, never the timeout error, and its
\* id is not in the map when it returns.
C9_RegisterThenSend ==
  [][\A k \in Callers :
       /\ pcc[k] = "json" /\ pcc'[k] = "sending" =>
            /\ cid'[k] \in DOMAIN pending' /\ pending'[cid'[k]] = k
            /\ fut'[k].state = "pending"
            /\ wire' = wire
       /\ pcc[k] = "sending" /\ pcc'[k] = "waiting" => fut[k].state # "none"
       /\ pcc[k] = "sending" /\ pcc'[k] = "done" => resp'[k] = RespSendFailed
       /\ pcc[k] # "done" /\ pcc'[k] = "done"
            /\ resp'[k].kind = "send_failed" =>
            /\ pcc[k] \in {"json", "sending"}
            /\ resp'[k].status = 502 /\ resp'[k] # RespTimeout
            /\ cid'[k] \notin DOMAIN pending']_vars

\* send_str raised after it had suspended on an open connection
C9_Witness ==
  \E k \in Callers :
    /\ resp[k] = RespSendFailed
    /\ cid[k] \notin DOMAIN pending
    /\ plugin_ws # None /\ ~closed[plugin_ws] /\ wire[plugin_ws] = <<>>
    /\ \A j \in Callers \ {k} : pcc[j] = "idle"
    /\ \A c \in Conns \ {plugin_ws} : pcw[c] = "new"

\* C10: a call that finds the peer slot empty or the attached connection
\* closed returns 'Plugin not connected', status 503, in the same step;
\* the pending map, the futures and the wire are unchanged.
C10_NoPeerRefused ==
  [][\A k \in Callers :
       pcc[k] = "idle" /\ pcc'[k] # "idle"
         /\ (plugin_ws = None \/ closed[plugin_ws])
       => /\ pcc'[k] = "done"
          /\ resp'[k] = RespNotConnected /\ resp'[k].status = 503
          /\ UNCHANGED <<pending, fut, wire, plugin_ws, cid>>]_vars

\* a call was refused while the slot held a closed connection
C10_Witness ==
  \E k \in Callers :
    /\ resp[k] = RespNotConnected
    /\ plugin_ws # None /\ closed[plugin_ws]

\* a connection is closing the attached peer to take its place (line 108),
\* and call k waits for a reply of that peer with its deadline not reached
ReplacedWhilePending(k) ==
  /\ \E n \in Conns : /\ pcw[n] = "closing"
                      /\ pcw[closeTarget[n]] = "loop"
                      /\ target[k] = closeTarget[n]
  /\ pcc[k] = "waiting" /\ Unfailed(k)
  /\ ~Expired(elapsed[k])

\* C2: when a connection replaces the attached peer, every call that waits
\* for a reply of that peer at that time returns the disconnect error, status
\* 502 'Plugin disconnected' (commands carrying distinct ids).
C2_ReplacementFailsPending ==
  []UniqueIds =>
    \A k \in Callers :
      ReplacedWhilePending(k) ~> (pcc[k] = "done" /\ resp[k] = RespDisconnected)

\* both callers waited when the peer was replaced, and both have the
\* disconnect error
C2_Witness ==
  /\ \A k \in Callers : pcc[k] = "done" /\ resp[k] = RespDisconnected
  /\ \E n \in Conns : pcw[n] = "loop" /\ plugin_ws = n
                      /\ \E o \in Conns : o # n /\ pcw[o] = "ended"

\* C8: every call that has registered a pending request returns a result, the
\* timeout error, the disconnect error or the transport error, and its id
\* leaves the pending map.
C8_EveryCallReturns ==
  \A k \in Callers : \A i \in Ids :
    (InFlight(k) /\ cid[k] = i) ~>
      (/\ pcc[k] = "done"
       /\ resp[k].kind \in {"result", "timeout", "disconnected", "send_failed"}
       /\ i \notin DOMAIN pending)

\* a call that registered has returned although its peer never replied and
\* never disconnected
C8_Witness ==
  \E k \in Callers :
    /\ pcc[k] = "done" /\ resp[k] = RespTimeout
    /\ \E c \in Conns : pcw[c] = "loop" /\ ~closed[c] /\ wire[c] = <<cid[k]>>
    /\ pending = EmptyDict

\* C11: for a command of the registry, send_command never raises and the
\* dict it returns has "ok" and one of "result" and "error", whatever the
\* bridge answers and whenever it answers: no peer, transport failure,
\* timeout, disconnect, rejection by the peer.
C11_UniformNeverRaises ==
  c_action \in SUPPORTED_ACTIONS =>
    /\ c_pc # "raised"
    /\ c_pc = "returned" =>
         "ok" \in c_ret.keys /\ {"result", "error"} \cap c_ret.keys # {}

C13_IdsUnique ==
  \A x, y \in i_issued : x.id = y.id => x = y


\* a line _canonical_line accepts: an even number, at least 4, of numbers
WellFormed(line) ==
  /\ line.t = "list"
  /\ Len(Items(line)) >= 4
  /\ Len(Items(line)) % 2 = 0
  /\ \A i \in 1..Len(Items(line)) : IsNumber(Items(line)[i])

\* the points of a well-formed line as numbers, whatever their representation
Geometry(line) ==
  [k \in 1..(Len(Items(line)) \div 2) |->
     <<NumVal(Items(line)[2 * k - 1]), NumVal(Items(line)[2 * k])>>]

\* C14: two well-formed lines get the same canonical key exactly when the
\* points of one are the points of the other, in the same or in the reverse
\* order, compared as numbers.
C14_KeyIffSameGeometry ==
  (k_pc = "keyed" /\ WellFormed(k_a) /\ WellFormed(k_b)) =>
    /\ k_keyA # NoneValue
    /\ k_keyB # NoneValue
    /\ (k_keyA = k_keyB) <=>
         \/ Geometry(k_b) = Geometry(k_a)
         \/ Geometry(k_b) = Reversed(Geometry(k_a))

\* a three-point line and its reverse, one written with floats, share a key
C14_Witness ==
  /\ k_pc = "keyed"
  /\ WellFormed(k_a) /\ WellFormed(k_b)
  /\ Len(Items(k_a)) = 6
  /\ Geometry(k_b) = Reversed(Geometry(k_a))
  /\ Geometry(k_b) # Geometry(k_a)
  /\ Items(k_a) # Reversed(Items(k_b))
  /\ \E i \in 1..6 : Items(k_b)[i].t = "float" /\ Items(k_b)[i].v % Den = 0
  /\ k_keyA = k_keyB

\* C15: an integral float is normalized to the equal integer, every other
\* number is left as it is, so the normalized forms of two coordinates are
\* equal exactly when the coordinates are equal as numbers; a boolean or a
\* non-number is rejected.
C15_NormalizeNumber ==
  k_pc \in {"normalized", "keyed"} =>
    /\ \A i \in 1..Len(Items(k_a)) :
         LET u == Items(k_a)[i]
             n == k_normA[i]
         IN  /\ (u.t = "float" /\ u.v % Den = 0) =>
                  n.t = "int" /\ NumVal(n) = NumVal(u)
             /\ (u.t = "int" \/ (u.t = "float" /\ u.v % Den # 0)) => n = u
             /\ ~IsNumber(u) => n = NoneValue
    /\ \A i \in 1..Len(Items(k_a)), j \in 1..Len(Items(k_b)) :
         (IsNumber(Items(k_a)[i]) /\ IsNumber(Items(k_b)[j])) =>
           ((k_normA[i] = k_normB[j]) <=>
              (NumVal(Items(k_a)[i]) = NumVal(Items(k_b)[j])))
    /\ (k_pc = "keyed" /\ \E i \in 1..Len(Items(k_a)) : ~IsNumber(Items(k_a)[i]))
         => k_keyA = NoneValue

\* an integral float and the equal integer have met, a non-integral float
\* was kept, and a boolean was rejected
C15_Witness ==
  /\ k_pc = "keyed"
  /\ \E i \in 1..Len(Items(k_a)), j \in 1..Len(Items(k_b)) :
       /\ Items(k_a)[i].t = "float" /\ Items(k_b)[j].t = "int"
       /\ k_normA[i] = k_normB[j]
  /\ \E j \in 1..Len(Items(k_b)) :
       Items(k_b)[j].t = "float" /\ k_normB[j] = Items(k_b)[j]
  /\ \E i \in 1..Len(Items(k_a)) :
       Items(k_a)[i].t = "bool" /\ k_normA[i] = NoneValue
  /\ k_keyA = NoneValue


\* the report of a snapshot that has a schema object is there
Verified == v_report # NoReport /\ HasSchema(v_read)

\* the expected entries of a list that are not in the set, as a bag of positions
Absent(expected, actual) == {i \in 1..Len(expected) : expected[i] \notin actual}

\* C16: verification against a snapshot with a schema object reports ok
\* exactly when every expected component and every expected wire is in the
\* snapshot's set and every expected net is among the snapshot's nets, and
\* the two missing lists name the absent expected entries and nothing else.
C16_OkIffContained ==
  Verified =>
    LET schema_obj == SchemaOf(v_read)
        ec == ExpectedComponents(v_payload)
        ew == ExpectedWires(v_payload)
        ac == ActualComponents(schema_obj)
        aw == ActualWires(schema_obj)
    IN  /\ v_report.ok <=>
             /\ \A i \in 1..Len(ec) : ec[i] \in ac
             /\ \A i \in 1..Len(ew) : ew[i] \in aw
             /\ \A i \in 1..Len(ew) : ew[i][2] \in ActualNets(schema_obj)
        /\ Len(v_report.missing_components) = Cardinality(Absent(ec, ac))
        /\ Range(v_report.missing_components) =
             {[uuid |-> ec[i][1], libraryUuid |-> ec[i][2],
               x |-> ec[i][3], y |-> ec[i][4]] : i \in Absent(ec, ac)}
        /\ Len(v_report.missing_wires) = Cardinality(Absent(ew, aw))
        /\ Range(v_report.missing_wires) =
             {[line |-> Flat(ew[i][1].v), net |-> ew[i][2]] : i \in Absent(ew, aw)}
        \* a component written 1.0 is found in a snapshot that holds it as 1
        /\ \A i \in 1..Len(Items(Get(v_payload, "operations"))) :
             LET op == Items(Get(v_payload, "operations"))[i]
             IN  (/\ op = Op("create_component",
                             ComponentInput("U1", FloatV(Den * MaxCoord)))
                  /\ ComponentItem("U1", IntV(MaxCoord)) \in Range(SchemaComponents(v_read)))
                   => \A j \in 1..Len(v_report.missing_components) :
                        v_report.missing_components[j].uuid # "U1"
                          \/ v_report.missing_components[j].x # IntV(MaxCoord)

\* a plan of a component and a wire, of which the snapshot has neither
\* although it is not empty
C16_Witness ==
  /\ Verified
  /\ ~v_report.ok
  /\ Len(v_report.missing_components) = 1
  /\ Len(v_report.missing_wires) = 1
  /\ v_report.missing_nets = <<>>
  /\ v_report.actual.components >= 1
  /\ v_report.actual.wires >= 1

\* the snapshot of the next state is the snapshot of this one with more
\* components or wires
Grows ==
  /\ HasSchema(v_read) /\ HasSchema(v_read')
  /\ Len(SchemaComponents(v_read')) >= Len(SchemaComponents(v_read))
  /\ Len(SchemaWires(v_read')) >= Len(SchemaWires(v_read))
  /\ SubSeq(SchemaComponents(v_read'), 1, Len(SchemaComponents(v_read)))
       = SchemaComponents(v_read)
  /\ SubSeq(SchemaWires(v_read'), 1, Len(SchemaWires(v_read))) = SchemaWires(v_read)
  /\ v_read' # v_read

\* C17: when components or wires are added to a snapshot, a report that was
\* ok stays ok and none of the three missing lists gets a new entry.
C17_MoreNeverMissing ==
  [][(Verified /\ Grows) =>
       /\ v_report.ok => v_report'.ok
       /\ Range(v_report'.missing_components) \subseteq Range(v_report.missing_components)
       /\ Len(v_report'.missing_components) <= Len(v_report.missing_components)
       /\ Range(v_report'.missing_wires) \subseteq Range(v_report.missing_wires)
       /\ Len(v_report'.missing_wires) <= Len(v_report.missing_wires)
       /\ Range(v_report'.missing_nets) \subseteq Range(v_report.missing_nets)
       /\ Len(v_report'.missing_nets) <= Len(v_report.missing_nets)]_vars

\* a plan of a component and a wire is verified against a snapshot that has
\* grown to hold them and as many entries the plan does not name
C17_Witness ==
  /\ Verified
  /\ v_report.ok
  /\ v_report.expected.components = 1
  /\ v_report.expected.wires = 1
  /\ Len(SchemaComponents(v_read)) = MaxItems
  /\ Len(SchemaWires(v_read)) = MaxItems
  /\ v_report.actual.components = 2
  /\ v_report.actual.wires = 2

\* C18: a read_schema result without a schema object is reported as not ok
\* with an error and without the three missing lists, whatever the plan is;
\* a report of a snapshot with a schema object has the lists and no error.
C18_NoSchemaOwnError ==
  v_report # NoReport =>
    IF HasSchema(v_read)
    THEN /\ "error" \notin DOMAIN v_report
         /\ {"missing_components", "missing_wires", "missing_nets"}
              \subseteq DOMAIN v_report
    ELSE /\ v_report.ok = FALSE
         /\ DOMAIN v_report = {"ok", "error"}
         /\ v_report.error = "read_schema result does not contain a schema object"

\* a plan that expects a component was verified against a result whose
\* schema is not an object
C18_Witness ==
  /\ v_report # NoReport
  /\ IsDict(Get(v_read, "result"))
  /\ ~HasSchema(v_read)
  /\ Len(ExpectedComponents(v_payload)) >= 1
  /\ Len(ExpectedWires(v_payload)) >= 1
  /\ "error" \in DOMAIN v_report


\* the operation kinds of a plan
KindsOf(plan) == {Items(plan.operations)[i].kind.v : i \in 1..Len(Items(plan.operations))}

\* the update_schema commands the flow has sent
UpdatesSent == {i \in 1..Len(a_sent) : a_sent[i].action = "update_schema"}

\* the peer answered the precheck, and its answer lacks a kind of the plan
CapabilityMissing ==
  /\ Ok(a_got.runtime)
  /\ ~(KindsOf(a_plan) \subseteq ExtractAvailableUpdateOperations(a_got.runtime))

\* C19: when the capability reply lacks an operation kind of the compiled
\* plan, the flow has ended with exit code 1 and an error whose details name
\* every missing kind, and it has sent no update_schema command at all.
C19_MissingCapabilityAborts ==
  CapabilityMissing =>
    /\ a_pc = "done"
    /\ a_exit = "1"
    /\ a_out.ok = FALSE
    /\ a_out.error = "Runtime precheck failed: required operations unavailable"
    /\ KindsOf(a_plan) \ ExtractAvailableUpdateOperations(a_got.runtime)
         \subseteq Range(a_out.details.missing_operations)
    /\ UpdatesSent = {}
    /\ a_sent[Len(a_sent)].action = "get_runtime_status"

\* the plan places a component and draws a wire, the peer reports
\* create_component only, and the flow has ended naming create_wire
C19_Witness ==
  /\ CapabilityMissing
  /\ KindsOf(a_plan) = {"create_component", "create_wire"}
  /\ ExtractAvailableUpdateOperations(a_got.runtime) = {"create_component"}
  /\ a_pc = "done"
  /\ a_out.details.missing_operations = <<"create_wire">>

\* the dry run before the apply was answered, and the answer was not ok
DryRunRejected == a_got.pre_dry_run # NotSent /\ ~Ok(a_got.pre_dry_run)

\* C20: when the dry run before the apply is rejected by the peer or fails
\* in the bridge, the flow has ended with exit code 1, its report has mode
\* precheck_dry_run and holds the rejection, that report is the audit record
\* (unless --no-audit), and no update_schema with dry_run = false was sent.
C20_RejectedDryRunAborts ==
  DryRunRejected =>
    /\ a_pc = "done"
    /\ a_exit = "1"
    /\ a_out.ok = FALSE
    /\ a_out.mode = "precheck_dry_run"
    /\ a_out.pre_dry_run = a_got.pre_dry_run
    /\ a_out.bridge_result = NoneValue
    /\ IF a_args.no_audit THEN a_audit = <<>>
       ELSE /\ Len(a_audit) = 1
            /\ a_audit[1].mode = "precheck_dry_run"
            /\ a_audit[1].pre_dry_run = a_got.pre_dry_run
    /\ \A i \in UpdatesSent : a_sent[i].dry_run
    /\ Cardinality(UpdatesSent) = 1

\* a confirmed apply whose dry run the peer rejected has ended, audited
C20_Witness ==
  /\ DryRunRejected
  /\ a_got.pre_dry_run.error = "rejected"
  /\ a_args.confirm /\ ~a_args.dry_run /\ ~a_args.no_audit
  /\ a_pc = "done"
  /\ Len(a_audit) = 1
  /\ a_sent[Len(a_sent)] = Command("update_schema", TRUE, TRUE)

\* C21: an update_schema command with dry_run false is sent only by a flow
\* that was given --confirm, and it carries confirm = true; a flow started
\* with neither --confirm nor --dry-run sends no command at all and ends
\* with the structured error.
C21_RealApplyNeedsConfirm ==
  /\ \A i \in UpdatesSent :
        ~a_sent[i].dry_run => a_args.confirm /\ a_sent[i].confirm
  /\ (a_pc # "idle" /\ ~a_args.dry_run /\ ~a_args.confirm)
        => a_sent = <<>> /\ a_pc = "done" /\ a_exit = "1" /\ ~a_out.ok

\* a confirmed flow has sent the real update
C21_Witness ==
  /\ a_args.confirm /\ ~a_args.dry_run
  /\ \E i \in UpdatesSent : ~a_sent[i].dry_run /\ a_sent[i].confirm

\* a flow with neither flag has been refused
C21_WitnessRefused ==
  a_pc = "done" /\ ~a_args.dry_run /\ ~a_args.confirm /\ a_sent = <<>>

\* the read_schema command of the verify stage has been sent
ReadSent == \E i \in 1..Len(a_sent) : a_sent[i].action = "read_schema"

\* the apply command reported ok and the verification, when it ran, did too
ApplyAndVerificationOk ==
  /\ Ok(a_got.apply)
  /\ ReadSent => Ok(a_got.read) /\ Ok(VerifyPlanAgainstSchema(a_plan, a_got.read))

\* C22: a flow that has ended exits with 0 exactly when the apply command
\* reported ok and the verification, when it ran, reported ok; the printed
\* outcome of a flow that reached the apply stage says the same.  A
\* containment mismatch or a failed snapshot read after a successful apply
\* gives a failed outcome and a non-zero exit code.
C22_OutcomeIsApplyAndVerification ==
  a_pc = "done" =>
    /\ a_exit = "0" <=> ApplyAndVerificationOk
    /\ (a_got.apply # NotSent /\ a_exit # "raised")
         => /\ a_out.ok <=> ApplyAndVerificationOk
            /\ a_out.bridge_result = a_got.apply
            /\ a_exit \in {"0", "1"}

\* the apply reported success, the snapshot was read, and the plan is not
\* contained in it
C22_Witness ==
  /\ a_pc = "done" /\ Ok(a_got.apply) /\ Ok(a_got.read)
  /\ ~Ok(VerifyPlanAgainstSchema(a_plan, a_got.read))
  /\ a_exit = "1" /\ ~a_out.ok

\* the flow reached the precheck and ended with an exit code
EndedAfterCompile ==
  /\ a_pc = "done" /\ a_exit \in {"0", "1"}
  /\ \E i \in 1..Len(a_sent) : a_sent[i].action = "get_runtime_status"

\* C23: a flow that ends at the precheck or at any later stage, without
\* --no-audit, has written one audit record, which holds the outcome of the
\* stages and whose mode names the stage the flow ended at.
C23_EveryEndAudited ==
  (EndedAfterCompile /\ ~a_args.no_audit) =>
    /\ Len(a_audit) = 1
    /\ a_audit[1].runtime_precheck = a_got.runtime
    /\ a_audit[1].ok <=> a_exit = "0"
    /\ a_got.apply # NotSent <=> a_audit[1].mode \in {"dry_run", "apply"}

\* what the flow does: a flow that ends with an exit code has written its
\* audit record exactly when it ended at the pre dry run or later
AuditedFromDryRunOn ==
  (a_pc = "done" /\ a_exit \in {"0", "1"} /\ ~a_args.no_audit) =>
    (Len(a_audit) = 1 <=> (a_got.pre_dry_run # NotSent \/ a_got.apply # NotSent))

\* the commands sent after the compilation (the compilation sends the
\* search_component commands)
SentAfterCompile ==
  SelectSeq(a_sent, LAMBDA c : c.action # "search_component")

\* the commands of a flow that runs through every stage its flags allow
StagesOf(args) ==
  <<Command("get_runtime_status", FALSE, FALSE)>>
    \o (IF args.skip_pre_dry_run THEN <<>> ELSE <<Command("update_schema", TRUE, TRUE)>>)
    \o <<Command("update_schema", IF args.dry_run THEN TRUE ELSE args.confirm,
                 args.dry_run)>>
    \o (IF args.skip_verify \/ args.dry_run THEN <<>>
        ELSE <<Command("read_schema", FALSE, FALSE)>>)

IsPrefix(s, t) == Len(s) <= Len(t) /\ \A i \in 1..Len(s) : s[i] = t[i]

\* C24: the commands sent after the compilation are a prefix of
\* get_runtime_status, update_schema (dry run), update_schema (apply),
\* read_schema, without the stages the flags skip; a command is sent only
\* when the reply to the one before it was ok, the snapshot is read after
\* the apply reply, and a reply that is not ok ends the flow.
C24_StagesInOrderOnce ==
  LET sent == SentAfterCompile
      dry  == IF a_args.skip_pre_dry_run THEN 0 ELSE 1
  IN  /\ IsPrefix(sent, StagesOf(a_args))
      /\ Len(sent) >= 2 => Ok(a_got.runtime)
      /\ (Len(sent) >= 3 /\ dry = 1) => Ok(a_got.pre_dry_run)
      /\ Len(sent) >= 3 + dry => Ok(a_got.apply)
      /\ a_got.read # NotSent => Len(sent) = 3 + dry /\ Ok(a_got.apply)
      /\ \A stage \in DOMAIN a_got :
            (a_got[stage] # NotSent /\ ~Ok(a_got[stage])) => a_pc = "done"

\* a flow has sent all four commands, and another has ended on a failed apply
C24_Witness ==
  /\ Len(SentAfterCompile) = 4
  /\ a_got.read # NotSent

C24_WitnessFailedApply ==
  /\ a_got.apply # NotSent /\ ~Ok(a_got.apply) /\ a_pc = "done"
  /\ Len(SentAfterCompile) = 3

\* the compilation failed: the planner raised RequirementsError, as it does
\* when a search_component lookup fails
CompileFailed ==
  /\ a_pc = "done"
  /\ a_out = [ok |-> FALSE, error |-> "Unable to build requirements payload",
              details |-> NoneValue]

\* C25: a failed search_component lookup makes the compilation fail; when
\* the compilation fails the flow prints a structured error,
\* exits with 1, holds no plan, sends no get_runtime_status, update_schema
\* or read_schema command, and writes neither a payload file nor an audit
\* record.  Whenever one of these commands has been sent, or the payload
\* file written, the flow holds a compiled plan.
C25_CompileFailureHandsNothingOn ==
  /\ CompileFailed =>
       /\ a_exit = "1"
       /\ a_plan = [operations |-> NoneValue]
       /\ SentAfterCompile = <<>>
       /\ ~a_file
       /\ a_audit = <<>>
  /\ a_got.search \in Failures => CompileFailed
  /\ (SentAfterCompile # <<>> \/ a_file) => a_plan \in CompiledPlans

\* a failed search_component lookup has ended a flow that asked for the
\* payload file
C25_Witness ==
  /\ CompileFailed
  /\ a_args.output_payload_file
  /\ a_sent = <<Command("search_component", FALSE, FALSE)>>
  /\ a_got.search \in Failures

\* a message the bridge has nothing to do for: a pong, an identification
\* event, a message of unknown type, a result whose id is not in the
\* pending map
Ignorable(m) ==
  \/ m.kind \in {"pong", "event", "other"}
  \/ m.kind = "result" /\ m.id \notin DOMAIN pending

\* the step changes nothing of the bridge but, for an identification event,
\* the peer metadata
OnlyMetadata(m) ==
  /\ UNCHANGED <<pending, plugin_ws, fut, pcc, cid, target, elapsed, resp, pcw,
                 closed, closeTarget, wire>>
  /\ plugin_meta' = IF m.kind = "event" THEN plugin_meta \cup m.payload
                    ELSE plugin_meta

\* C26: processing a pong, an identification event, a message of unknown
\* type or a result whose id is not in the pending map resolves no caller
\* and leaves the pending map and the peer slot unchanged; only the
\* identification event changes anything, and only the peer metadata.
C26_IgnoredMessagesOnlyMetadata ==
  [][\A c \in Conns : \A m \in PeerMessages(c) :
       Ignorable(m) /\ PluginMessage(c, m) => OnlyMetadata(m)]_vars

\* what the bridge does: the same holds of the ignorable messages whose id
\* can be looked up in the pending map
IgnoredHashableOnlyMetadata ==
  [][\A c \in Conns : \A m \in PeerMessages(c) :
       Ignorable(m) /\ ~Raises(m) /\ PluginMessage(c, m) => OnlyMetadata(m)]_vars

\* C27: a wake-up of the liveness task sends a ping only to the connection
\* that is attached and open at that moment; it changes nothing of the
\* bridge (no pending request is registered, no future touched, the peer
\* slot is unchanged), whether the send succeeds or fails; and the task is
\* back at its sleep after every wake-up, without waiting for a pong.
C27_PingTouchesNothing ==
  [][\A truthy, sent \in BOOLEAN :
       Ping(truthy, sent) =>
         /\ UNCHANGED <<pending, plugin_ws, plugin_meta, fut, pcc, cid, target,
                        elapsed, resp, pcw, closed, closeTarget, wire>>
         /\ ping' # ping =>
              /\ plugin_ws # None /\ ping'.to = plugin_ws
              /\ pcw[plugin_ws] = "loop" /\ ~closed[plugin_ws]
         /\ ping_pc' = "sleep"]_vars

\* a ping could not be sent while a call waits for the peer: the peer is
\* still attached, the request still pending and the task at its sleep
C27_Witness ==
  /\ ping.to # None /\ ~ping.sent
  /\ ping_pc = "sleep"
  /\ plugin_ws = ping.to
  /\ \E k \in Callers : pcc[k] = "waiting" /\ cid[k] \in DOMAIN pending

\* connection c is the most recently accepted one, and it is open with its
\* message loop running
NewestOpen(c) ==
  /\ pcw[c] = "loop" /\ ~closed[c]
  /\ \A n \in Conns : n > c => pcw[n] \in {"new", "rejected"}

\* C28: while the most recently accepted connection is open and its message
\* loop runs, the peer slot refers to it, so that neither /status nor
\* /command finds the bridge not connected.
C28_SlotHoldsNewestOpen ==
  \A c \in Conns :
    NewestOpen(c) => plugin_ws = c /\ ~NotConnected(plugin_ws, closed)

\* the step fails the request of call k with the disconnect error
FailedByDisconnect(k) ==
  fut[k].state = "pending" /\ fut'[k].state = "exception"

\* the step is the end of the connection call k sent its command to
OwnConnectionEnds(k) ==
  IF target[k] = None THEN FALSE
  ELSE pcw[target[k]] = "loop" /\ pcw'[target[k]] = "ended"

\* C29: a pending request is failed with the disconnect error, or removed
\* from the pending map by a cleanup, only in the step in which the
\* connection it was sent to ends.
C29_FailedOnlyByOwnConnection ==
  [][\A k \in Callers :
       FailedByDisconnect(k) => OwnConnectionEnds(k)]_vars

\* C30: between the steps of the event loop, the pending map is empty
\* whenever the peer slot is empty; no call that found no peer when it
\* transmitted is left registered.
C30_EmptySlotEmptyPending ==
  /\ plugin_ws = None => pending = EmptyDict
  /\ \A i \in DOMAIN pending :
       /\ pcc[pending[i]] \in {"sending", "waiting", "expired"}
       /\ resp[pending[i]] = NoResp

\* the peer went away while one call waited for it and another was reading
\* its body: the first has the disconnect error, the second the transport
\* error, and nothing is left in the map
C30_Witness ==
  /\ plugin_ws = None /\ pending = EmptyDict
  /\ \E j, k \in Callers :
       /\ resp[k] = RespDisconnected
       /\ resp[j] = RespSendFailed /\ cid[j] # NoId

\* C31: whatever text the peer sends (not JSON, JSON that is not an object,
\* an unknown type, a result with an unmatched or malformed id), processing
\* it leaves the peer attached and its handler in the message loop, and
\* fails no pending request.
C31_NoContentDetaches ==
  [][\A c \in Conns : \A m \in PeerMessages(c) :
       PluginMessage(c, m) =>
         /\ plugin_ws' = plugin_ws
         /\ pcw'[c] = "loop" /\ ~closed'[c]
         /\ \A k \in Callers : ~FailedByDisconnect(k)
         /\ \A i \in DOMAIN pending : i # m.id => i \in DOMAIN pending']_vars

\* what the bridge does: the same holds of every message that is not JSON,
\* or that is an object whose id can be looked up
ContentThatParsesNeverDetaches ==
  [][\A c \in Conns : \A m \in PeerMessages(c) :
       ~Raises(m) /\ PluginMessage(c, m) =>
         /\ plugin_ws' = plugin_ws
         /\ pcw'[c] = "loop" /\ ~closed'[c]
         /\ \A k \in Callers : ~FailedByDisconnect(k)
         /\ \A i \in DOMAIN pending : i # m.id => i \in DOMAIN pending']_vars

\* C32: in a report built from a snapshot with a schema object, every
\* missing net is the net of a missing wire; so missing_nets is empty when
\* missing_wires is, and ok is decided by the components and the wires.
C32_MissingNetHasMissingWire ==
  (v_report # NoReport /\ HasSchema(v_read)) =>
    /\ \A i \in 1..Len(v_report.missing_nets) :
         \E j \in 1..Len(v_report.missing_wires) :
           v_report.missing_wires[j].net = v_report.missing_nets[i]
    /\ v_report.missing_nets # <<>> => v_report.missing_wires # <<>>
    /\ v_report.ok <=> (v_report.missing_components = <<>>
                          /\ v_report.missing_wires = <<>>)

\* a net of the plan is missing while another net of the plan, with the
\* same line, is in the snapshot
C32_Witness ==
  /\ v_report # NoReport /\ HasSchema(v_read)
  /\ v_report.missing_nets = <<"N2">>
  /\ v_report.expected.nets = <<"N1", "N2">>
  /\ v_report.actual.nets_count = 1

\* the field of an object is a string that is not empty
TextField(obj, field) ==
  IF field \in DOMAIN obj THEN obj[field].t = "str" /\ obj[field].v # "" ELSE FALSE

\* the field of an object is a number that is no boolean
NumberField(obj, field) ==
  IF field \in DOMAIN obj THEN IsNumber(obj[field]) ELSE FALSE

\* the operation creates a component and has every field of one
PlacesComponent(op) ==
  IF "t" \in DOMAIN op THEN FALSE
  ELSE IF "t" \in DOMAIN op.input THEN FALSE
  ELSE /\ op.kind = StrV("create_component")
       /\ TextField(op.input, "uuid") /\ TextField(op.input, "libraryUuid")
       /\ NumberField(op.input, "x") /\ NumberField(op.input, "y")

\* the operation creates a wire and has every field of one
DrawsWire(op) ==
  IF "t" \in DOMAIN op THEN FALSE
  ELSE IF "t" \in DOMAIN op.input THEN FALSE
  ELSE /\ op.kind = StrV("create_wire")
       /\ TextField(op.input, "net")
       /\ IF "line" \in DOMAIN op.input THEN WellFormed(op.input.line) ELSE FALSE

\* the operations of the plan, none when it has no list of them
PlanOperations ==
  IF "operations" \in DOMAIN v_payload THEN Items(v_payload.operations) ELSE <<>>

\* C33: the expected components and wires of a report are the operations
\* that create a component or a wire with every required field, one for
\* one; a plan without operations, or without any such operation, is
\* verified ok with nothing missing against every snapshot that has a
\* schema object.
C33_OnlyCompleteOperationsCount ==
  Verified =>
    LET ops == PlanOperations
        nc  == Cardinality({i \in 1..Len(ops) : PlacesComponent(ops[i])})
        nw  == Cardinality({i \in 1..Len(ops) : DrawsWire(ops[i])})
    IN  /\ v_report.expected.components = nc
        /\ v_report.expected.wires = nw
        /\ nc + nw = 0 =>
             /\ v_report.ok
             /\ v_report.expected.nets = <<>>
             /\ v_report.missing_components = <<>>
             /\ v_report.missing_wires = <<>>
             /\ v_report.missing_nets = <<>>

\* a plan of a component whose x is a boolean and a wire without a net
\* was verified ok against a snapshot that holds a component and a wire
C33_Witness ==
  /\ Verified /\ v_report.ok
  /\ Len(PlanOperations) = 2
  /\ Get(PlanOperations[1], "kind") = StrV("create_component")
  /\ Get(Get(PlanOperations[1], "input"), "x") = Bool
  /\ Get(PlanOperations[2], "kind") = StrV("create_wire")
  /\ Get(Get(PlanOperations[2], "input"), "net") = StrV("")
  /\ v_report.expected.components = 0 /\ v_report.expected.wires = 0
  /\ v_report.actual.components = 1 /\ v_report.actual.wires = 1

\* C34: in a flow started with --dry-run every update_schema command sent
\* carries dry_run = true and confirm = true, no read_schema command is
\* sent, and the report of a flow that reached the apply stage has mode
\* dry_run and no verification, in the output and in the audit record.
C34_DryRunChangesNothing ==
  (a_pc # "idle" /\ a_args.dry_run) =>
    /\ \A i \in UpdatesSent : a_sent[i].dry_run /\ a_sent[i].confirm
    /\ ~ReadSent
    /\ a_got.read = NotSent
    /\ a_pc # "applied"
    /\ (a_pc = "done" /\ a_got.apply # NotSent /\ a_exit # "raised") =>
         /\ a_out.mode = "dry_run"
         /\ a_out.verification = NoneValue
         /\ a_out.ok <=> Ok(a_got.apply)
         /\ \A i \in 1..Len(a_audit) :
              a_audit[i].mode = "dry_run" /\ a_audit[i].verification = NoneValue

\* a dry run without --skip-verify went through the pre dry run and the
\* apply stage, both accepted, and ended with exit code 0
C34_Witness ==
  /\ a_pc = "done" /\ a_args.dry_run /\ ~a_args.skip_verify
  /\ ~a_args.skip_pre_dry_run /\ ~a_args.no_audit
  /\ Cardinality(UpdatesSent) = 2
  /\ Ok(a_got.apply) /\ a_exit = "0"
  /\ Len(a_audit) = 1

\* the flow has ended at the precheck for unavailable operations
AbortedAtPrecheck ==
  /\ a_pc = "done" /\ a_exit = "1"
  /\ IF "error" \in DOMAIN a_out
     THEN a_out.error = "Runtime precheck failed: required operations unavailable"
     ELSE FALSE
  /\ ~a_out.ok
  /\ a_got.pre_dry_run = NotSent /\ a_got.apply = NotSent
  /\ UpdatesSent = {}

\* the object holds a list of available update operations
HasAvailableList(obj) ==
  IF "t" \in DOMAIN obj THEN FALSE
  ELSE IF "update_operations" \notin DOMAIN obj THEN FALSE
  ELSE IF "t" \in DOMAIN obj.update_operations THEN FALSE
  ELSE IF "available" \notin DOMAIN obj.update_operations THEN FALSE
  ELSE obj.update_operations.available.t = "list"

\* the capability reply has a list of available operations at one of the
\* three places it is looked for
Recognisable(reply) ==
  LET root == reply.result
  IN  IF "t" \in DOMAIN root THEN FALSE
      ELSE \/ HasAvailableList(root)
           \/ IF "status" \in DOMAIN root THEN HasAvailableList(root.status) ELSE FALSE
           \/ IF "capabilities" \in DOMAIN root
              THEN HasAvailableList(root.capabilities) ELSE FALSE

\* C35: after a capability reply that is ok, the flow has ended at the
\* precheck exactly when create_component or create_wire is not among the
\* operations extracted from the reply, whatever kinds the plan holds; the
\* error names the operations that are missing; and a reply without a
\* recognisable list of available operations always ends the flow there.
C35_PrecheckFailsClosed ==
  Ok(a_got.runtime) =>
    LET available == ExtractAvailableUpdateOperations(a_got.runtime)
    IN  /\ AbortedAtPrecheck <=>
             ("create_component" \notin available \/ "create_wire" \notin available)
        /\ AbortedAtPrecheck =>
             /\ Range(a_out.details.missing_operations) =
                  {"create_component", "create_wire"} \ available
             /\ a_out.details.runtime_result = a_got.runtime
        /\ ~Recognisable(a_got.runtime) =>
             /\ AbortedAtPrecheck
             /\ a_out.details.available_operations = <<>>
             /\ a_out.details.missing_operations = <<"create_component", "create_wire">>

\* the plan only places a component, the peer reports create_component
\* only, and the flow has ended at the precheck; for create_wire
C35_Witness ==
  /\ Ok(a_got.runtime) /\ AbortedAtPrecheck
  /\ KindsOf(a_plan) = {"create_component"}
  /\ Recognisable(a_got.runtime)
  /\ a_out.details.missing_operations = <<"create_wire">>
  /\ a_out.details.available_operations = <<"create_component">>

\* a reply without a list of available operations has ended the flow
C35_WitnessNoList ==
  /\ Ok(a_got.runtime) /\ ~Recognisable(a_got.runtime) /\ AbortedAtPrecheck
  /\ a_got.runtime.result # NoneValue

====
